---- MODULE Spec2Model ----
(***************************************************************************)
(* State-machine model of chefs-embedded-form: the component loader, the   *)
(* CHEFS API service (file queue and authentication), the form store with  *)
(* the embedded-form shell, and the FormIO renderer wrapper.               *)
(*                                                                         *)
(* JavaScript runs one task at a time: an action of this model is one      *)
(* task (an event handler or a promise settlement) together with every     *)
(* continuation that resumes in the microtasks it queues, each run up to   *)
(* its next await on something still pending.                              *)
(***************************************************************************)
EXTENDS Integers, Sequences, FiniteSets, TLC

VARIABLES
  \* ---- ComponentLoader (src/unnamed/part_004) ----
  loadedComponents,   \* Map uri -> component info (NoInfo: no entry)
  loadingPromises,    \* Map uri -> promise of the in-flight load (0: no entry)
  scripts,            \* <script> elements appended to document.head, in order
  calls,              \* loadExternalComponents invocations, in order of call
  registry,           \* keys of Formio.Components.components
  \* ---- ChefsApi file operations (src/src/services/chefsApi.js) ----
  pendingUploads,     \* Map tempId -> {file, config}: its entry list
  pendingDeletes,     \* Set of file ids: its entry list
  uploadedFiles,      \* Map tempId -> upload result, as a set of pairs
  requests,           \* HTTP requests issued so far, each with its issuer
  runs,               \* processPendingFileOperations invocations
  now,                \* Date.now() at the last uploadFile call
  nextFile,           \* the File objects handed to uploadFile so far, plus 1
  lastUpload,         \* the descriptor the last uploadFile call returned
  lastGet,            \* the outcome of the getFile call that is followed
  \* ---- store and shell (compareVersionsPolyfill.js, EmbeddedForm.vue) ----
  loading,                    \* store.loading
  error,                      \* store.error
  formModuleVersions,         \* store.formModuleVersions
  selectedFormModuleVersion,  \* store.selectedFormModuleVersion
  formSchema,                 \* store.formSchema
  isFormReady,                \* store.isFormReady
  formConfig,                 \* store.formConfig
  submissionData,             \* store.submissionData
  inits,              \* initializeFormData invocations, in order of call
  timers,             \* setTimeout(resolve, 100) of handleConfigurationChange
  fetches,            \* requests issued through apiClient
  shellMounted,       \* EmbeddedForm has run onMounted
  emitted,            \* 'submit' events of the form instance, in order
  \* ---- authentication of the API service (chefsApi.js) ----
  chefsConfig,        \* chefsApi.config
  authToken,          \* chefsApi.authToken
  sent,               \* requests as they leave the request interceptors
  \* ---- the form renderer (FormIORenderer.vue) ----
  rendererMounted,    \* "no", "mounted" or "unmounted"
  schemaProp,         \* props.schema
  apiConfigProp,      \* props.apiConfig
  formInstance,       \* formInstance.value: 0 for null, else an instance
  isLoading,          \* isLoading.value
  rendererError,      \* error.value of the renderer
  renders,            \* renderForm calls that reached Formio.createForm
  instances,          \* the form instances created, "live" or "destroyed"
  \* ---- deployment: configuration loader and dev proxy ----
  envConfig,          \* window.ENV_CONFIG
  viteEnv,            \* import.meta.env, for the keys of the configuration
  appConfig,          \* the exported config of the configuration loader
  proxyConfig,        \* chefsBaseUrl and chefsBasePath of vite.config.js
  lastProxied,        \* the request through the dev proxy that is followed
  \* ---- compareVersions (src/src/utils/compareVersionsPolyfill.js) ----
  compared,           \* the compareVersions call that is followed
  \* ---- console output, in two runs that differ in the API key only ----
  console,            \* what the logging operations wrote, per operation
  consoleTwin         \* the console of the second run

loaderVars == <<loadedComponents, loadingPromises, scripts, calls, registry>>

fileVars == <<pendingUploads, pendingDeletes, uploadedFiles, requests, runs,
              now, nextFile, lastUpload, lastGet>>

storeVars == <<loading, error, formModuleVersions, selectedFormModuleVersion,
               formSchema, isFormReady, formConfig, inits, timers, fetches,
               shellMounted>>

submitVars == <<submissionData, emitted>>

authVars == <<authToken, sent>>

rendererVars == <<rendererMounted, schemaProp, apiConfigProp, formInstance,
                  isLoading, rendererError, renders, instances>>

configVars == <<envConfig, viteEnv, appConfig>>

proxyVars == <<proxyConfig, lastProxied>>

utilVars == <<compared>>

consoleVars == <<console, consoleTwin>>

deployVars == <<configVars, proxyVars, utilVars, consoleVars>>

vars == <<loaderVars, fileVars, storeVars, submitVars, chefsConfig, authVars,
          rendererVars, deployVars>>

(***************************************************************************)
(* Bounds of the model.                                                    *)
(***************************************************************************)
MaxCalls == 2      \* loadExternalComponents invocations
MaxUris == 2       \* length of one externalUris list
MaxFiles == 2      \* uploadFile calls
MaxRuns == 1       \* processPendingFileOperations calls
MaxNow == 0        \* milliseconds Date.now() advances by
MaxSubmits == 1    \* 'submit' events of the form
MaxInits == 2      \* initializeFormData calls
MaxChanges == 1    \* configurations applied in the configuration panel
MaxRequests == 2   \* requests recorded at the interceptors
MaxRenders == 2    \* renderForm calls that reach Formio.createForm
MaxTail == 4       \* characters of a request path after its leading /api
MaxVersionLen == 3 \* characters of a version string
MaxLogs == 2       \* logging operations that are followed

(***************************************************************************)
(* Component loader.                                                       *)
(***************************************************************************)
Uris == {"u1", "u2"}

\* The component types the script behind each URI registers when it runs.
Provides(uri) == IF uri = "u1" THEN {"simplefile"} ELSE {"simplefile", "bcaddress"}

BuiltIn == {"textfield"}

\* Map.get of a missing key: undefined.
NoInfo == [uri |-> "undefined", newComponents |-> {}, totalComponents |-> -1]

UriLists == UNION {[1..n -> Uris] : n \in 0..MaxUris}

\* getRegisteredComponents(): the keys of the registry.
getRegisteredComponents(reg) == reg

\* A load event that reports every registered type as new.
ComponentInfoUnfiltered(uri, before, after) ==
  [uri |-> uri, newComponents |-> after, totalComponents |-> Cardinality(after)]

\* The value loadScriptFromUri resolves with in script.onload.
ComponentInfo(uri, before, after) ==
  [uri |-> uri,
   newComponents |-> {c \in after : c \notin before},
   totalComponents |-> Cardinality(after)]

\* A loader state threaded through the synchronous part of a task.
LoaderState == [loaded |-> loadedComponents, loading |-> loadingPromises,
                scripts |-> scripts, calls |-> calls]

Result(uri, status, components) ==
  [uri |-> uri, status |-> status, components |-> components]

PushResult(L, c, r) ==
  [L EXCEPT !.calls[c].results = Append(@, r), !.calls[c].i = @ + 1]

\* A loader that never consults loadedComponents.
IsCachedNever(L, uri) == FALSE

\* this.loadedComponents.has(uri)
IsCached(L, uri) == L.loaded[uri] # NoInfo

\* this.loadingPromises.has(uri)
IsLoading(L, uri) == L.loading[uri] # 0

\* loadScriptFromUri(uri): a new <script> is appended to document.head; the
\* returned promise is identified by the element's position in scripts.
loadScriptFromUri(L, c, uri, reg) ==
  LET id == Len(L.scripts) + 1
  IN [L EXCEPT !.scripts = Append(@, [uri |-> uri,
                                        before |-> getRegisteredComponents(reg),
                                        state |-> "pending",
                                        waiters |-> <<c>>]),
               !.loading[uri] = id,
               !.calls[c].pc = "awaitLoad",
               !.calls[c].p = id]

\* await this.loadingPromises.get(uri): the call is queued behind the
\* reactions already registered on that promise.
AwaitInFlight(L, c, uri) ==
  LET id == L.loading[uri]
  IN [L EXCEPT !.scripts[id].waiters = Append(@, c),
               !.calls[c].pc = "awaitDedupe",
               !.calls[c].p = id]

\* The for loop of loadExternalComponents, run from the call's current
\* position until it awaits a pending promise or returns.
RECURSIVE RunLoop(_, _, _)
RunLoop(L, c, reg) ==
  LET call == L.calls[c]
  IN IF call.i > Len(call.uris)
       THEN [L EXCEPT !.calls[c].pc = "done"]
       ELSE LET uri == call.uris[call.i]
            IN IF IsCached(L, uri)
                 THEN RunLoop(PushResult(L, c, Result(uri, "cached", L.loaded[uri])),
                              c, reg)
                 ELSE IF IsLoading(L, uri)
                        THEN AwaitInFlight(L, c, uri)
                        ELSE loadScriptFromUri(L, c, uri, reg)

\* A catch block that leaves the settled promise in loadingPromises.
CatchErrorKeepingPromise(L, c, uri) ==
  PushResult(L, c, Result(uri, "error", NoInfo))

\* The catch block of the loop: loadingPromises.delete(uri), an 'error' entry.
CatchError(L, c, uri) ==
  PushResult([L EXCEPT !.loading[uri] = 0], c, Result(uri, "error", NoInfo))

\* The continuation of a call after the promise it awaits settled.
Resume(L, c, ok, info, reg) ==
  LET call == L.calls[c]
      uri == call.uris[call.i]
  IN IF ~ok
       THEN RunLoop(CatchError(L, c, uri), c, reg)
       ELSE IF call.pc = "awaitLoad"
              THEN RunLoop(PushResult([L EXCEPT !.loaded[uri] = info,
                                                !.loading[uri] = 0],
                                      c, Result(uri, "loaded", info)),
                           c, reg)
              ELSE RunLoop(PushResult(L, c, Result(uri, "deduped", L.loaded[uri])),
                           c, reg)

\* The reactions registered on a promise run in the order of registration.
RECURSIVE ResumeAll(_, _, _, _, _)
ResumeAll(L, ws, ok, info, reg) ==
  IF ws = <<>> THEN L
  ELSE ResumeAll(Resume(L, Head(ws), ok, info, reg), Tail(ws), ok, info, reg)

SetLoader(L) ==
  /\ loadedComponents' = L.loaded
  /\ loadingPromises' = L.loading
  /\ scripts' = L.scripts
  /\ calls' = L.calls

\* componentLoader.loadExternalComponents(externalUris)
LoadExternalComponents(uris) ==
  /\ Len(calls) < MaxCalls
  /\ LET c == Len(calls) + 1
         L0 == [LoaderState EXCEPT
                  !.calls = Append(@, [uris |-> uris, i |-> 1, pc |-> "run",
                                       p |-> 0, results |-> <<>>])]
     IN SetLoader(RunLoop(L0, c, registry))
  /\ UNCHANGED registry

\* script.onload: the script has run and registered its components.
ScriptLoaded(s) ==
  /\ scripts[s].state = "pending"
  /\ LET after == registry \cup Provides(scripts[s].uri)
         info == ComponentInfo(scripts[s].uri, scripts[s].before,
                               getRegisteredComponents(after))
         L0 == [LoaderState EXCEPT !.scripts[s].state = "loaded",
                                   !.scripts[s].waiters = <<>>]
     IN /\ registry' = after
        /\ SetLoader(ResumeAll(L0, scripts[s].waiters, TRUE, info, after))

\* script.onerror
ScriptFailed(s) ==
  /\ scripts[s].state = "pending"
  /\ LET L0 == [LoaderState EXCEPT !.scripts[s].state = "failed",
                                   !.scripts[s].waiters = <<>>]
     IN SetLoader(ResumeAll(L0, scripts[s].waiters, FALSE, NoInfo, registry))
  /\ UNCHANGED registry

LoaderInit ==
  /\ loadedComponents = [u \in Uris |-> NoInfo]
  /\ loadingPromises = [u \in Uris |-> 0]
  /\ scripts = <<>>
  /\ calls = <<>>
  /\ registry = BuiltIn

otherThanLoader == <<fileVars, storeVars, submitVars, chefsConfig, authVars, rendererVars,
                    deployVars>>

LoaderNext ==
  \/ \E uris \in UriLists : LoadExternalComponents(uris) /\ UNCHANGED otherThanLoader
  \/ \E s \in DOMAIN scripts : ScriptLoaded(s) /\ UNCHANGED otherThanLoader
  \/ \E s \in DOMAIN scripts : ScriptFailed(s) /\ UNCHANGED otherThanLoader

(***************************************************************************)
(* ChefsApi: the queue of file operations.                                 *)
(*                                                                         *)
(* A Map or Set keeps its entries in insertion order, and a for...of       *)
(* iterator over it is a position in that order: it meets the entries      *)
(* added behind it and skips those deleted before it reaches them. The     *)
(* model keeps the entries present as a sequence and, with each run, the   *)
(* number of entries its iterator has behind it.                           *)
(***************************************************************************)
\* The values Math.random().toString(36).substr(2, 9) is drawn from.
RandomParts == {"a", "b"}

TempIds == [prefix : {"temp_"}, time : 0..MaxNow, rand : RandomParts]

\* Identifiers of files that already exist on the server.
RealIds == [prefix : {""}, time : {0}, rand : {"r1"}]

NoId == [prefix |-> "", time |-> 0, rand |-> ""]

NoDescriptor == [name |-> 0, url |-> NoId, dataId |-> NoId]

\* fileId.startsWith('temp_')
IsTemp(id) == id.prefix = "temp_"

\* Map.prototype.has / Set.prototype.has
Has(entries, k) == \E i \in DOMAIN entries : entries[i].key = k

IndexOf(entries, k) == CHOOSE i \in DOMAIN entries : entries[i].key = k

\* Map.prototype.set: the value of a present key is replaced in place, a new
\* key is appended.
MapSet(entries, k, v) ==
  IF Has(entries, k)
    THEN [entries EXCEPT ![IndexOf(entries, k)].value = v]
    ELSE Append(entries, [key |-> k, value |-> v])

\* Map.prototype.delete / Set.prototype.delete
MapDelete(entries, k) ==
  IF Has(entries, k)
    THEN LET d == IndexOf(entries, k)
         IN [i \in 1..(Len(entries) - 1) |->
               IF i < d THEN entries[i] ELSE entries[i + 1]]
    ELSE entries

\* Set.prototype.add
SetAdd(entries, k) == MapSet(entries, k, 0)

\* The position of an iterator after entry k is deleted: an entry behind the
\* iterator no longer counts.
PosAfterDelete(entries, k, pos) ==
  IF Has(entries, k) /\ IndexOf(entries, k) <= pos THEN pos - 1 ELSE pos

\* The step of a for...of iterator with `pos` entries behind it: the index of
\* the next entry, 0 when the iteration is over.
IterNext(entries, pos) == IF pos < Len(entries) THEN pos + 1 ELSE 0

\* uploadFile: the temporary id, `temp_${Date.now()}_${Math.random()...}`.
TempId(time, rand) == [prefix |-> "temp_", time |-> time, rand |-> rand]

\* An HTTP request of the service; `run` and `k` say which invocation issued
\* it and as its how-manieth request.
Request(method, id, file, run, k) ==
  [method |-> method, id |-> id, file |-> file, run |-> run, k |-> k]

\* uploadFile that sends the file at once instead of queueing it.
UploadFileEager(time, rand) ==
  /\ nextFile <= MaxFiles
  /\ now' = time
  /\ LET tempId == TempId(time, rand)
     IN /\ pendingUploads' = MapSet(pendingUploads, tempId, nextFile)
        /\ lastUpload' = [name |-> nextFile, url |-> tempId, dataId |-> tempId]
        /\ requests' = requests \cup {Request("POST", tempId, nextFile, 0, nextFile)}
  /\ nextFile' = nextFile + 1
  /\ UNCHANGED <<pendingDeletes, uploadedFiles, runs, lastGet>>

\* chefsApi.uploadFile(file, options), called with a new File object when
\* the clock reads `time`.
UploadFile(time, rand) ==
  /\ nextFile <= MaxFiles
  /\ now' = time
  /\ LET tempId == TempId(time, rand)
     IN /\ pendingUploads' = MapSet(pendingUploads, tempId, nextFile)
        /\ lastUpload' = [name |-> nextFile, url |-> tempId, dataId |-> tempId]
  /\ nextFile' = nextFile + 1
  /\ UNCHANGED <<pendingDeletes, uploadedFiles, requests, runs, lastGet>>

\* The ids a caller of deleteFile holds: those of the descriptors uploadFile
\* returned (queued or not any more) and those of files on the server.
KnownIds ==
  {pendingUploads[i].key : i \in DOMAIN pendingUploads}
    \cup {id \in {lastUpload.dataId} : IsTemp(id)} \cup RealIds

\* deleteFile without the startsWith('temp_') test: every id is queued for
\* deletion on the server.
DeleteFileQueueingEveryId(id) ==
  /\ pendingDeletes' = SetAdd(pendingDeletes, id)
  /\ UNCHANGED <<pendingUploads, runs>>
  /\ UNCHANGED <<uploadedFiles, requests, now, nextFile, lastUpload, lastGet>>

\* chefsApi.deleteFile(fileId) with a string id.
DeleteFile(id) ==
  /\ IF IsTemp(id)
       THEN /\ pendingUploads' = MapDelete(pendingUploads, id)
            /\ runs' = [r \in DOMAIN runs |->
                          IF runs[r].pc = "upload"
                            THEN [runs[r] EXCEPT
                                    !.pos = PosAfterDelete(pendingUploads, id, @)]
                            ELSE runs[r]]
            /\ UNCHANGED pendingDeletes
       ELSE /\ pendingDeletes' = SetAdd(pendingDeletes, id)
            /\ UNCHANGED <<pendingUploads, runs>>
  /\ UNCHANGED <<uploadedFiles, requests, now, nextFile, lastUpload, lastGet>>

\* No getFile call has been made.
NoGet == [status |-> "none"]

\* file.type of the File objects handed to uploadFile.
TypeOf(file) == IF file % 2 = 1 THEN "application/pdf" ELSE "image/png"

\* The value getFile resolves with for a queued file.
TempFileData(file) ==
  [status |-> "resolved", data |-> file,
   headers |-> [contentType |-> TypeOf(file),
                contentDisposition |-> <<"attachment; filename=", file>>]]

\* getFile without the startsWith('temp_') test: every id is requested from
\* the server.
GetFileAlwaysRequesting(id) ==
  /\ lastGet = NoGet
  /\ requests' = requests \cup {Request("GET", id, 0, 0, 0)}
  /\ lastGet' = [status |-> "pending", id |-> id]
  /\ UNCHANGED <<pendingUploads, pendingDeletes, uploadedFiles, runs, now,
                 nextFile, lastUpload>>

\* chefsApi.getFile(fileId) with a string id. One call is followed to its
\* outcome.
GetFile(id) ==
  /\ lastGet = NoGet
  /\ IF IsTemp(id)
       THEN /\ lastGet' = IF Has(pendingUploads, id)
                            THEN TempFileData(pendingUploads[IndexOf(pendingUploads, id)].value)
                            ELSE [status |-> "rejected", message |-> "Temp file not found"]
            /\ UNCHANGED requests
       ELSE /\ requests' = requests \cup {Request("GET", id, 0, 0, 0)}
            /\ lastGet' = [status |-> "pending", id |-> id]
  /\ UNCHANGED <<pendingUploads, pendingDeletes, uploadedFiles, runs, now,
                 nextFile, lastUpload>>

\* The response to GET /files/{id}: getFile returns it, or rethrows the error.
GetFileSettled(ok) ==
  /\ lastGet.status = "pending"
  /\ lastGet' = IF ok THEN [status |-> "resolved", response |-> lastGet.id]
                      ELSE [status |-> "rejected", message |-> "Request failed"]
  /\ UNCHANGED <<pendingUploads, pendingDeletes, uploadedFiles, requests, runs,
                 now, nextFile, lastUpload>>

\* The state of the file queue threaded through the synchronous part of a task.
FileState == [pu |-> pendingUploads, pd |-> pendingDeletes, reqs |-> requests,
              runs |-> runs]

\* An end of processPendingFileOperations that clears nothing.
FinishRunKeepingQueues(F, r) ==
  [F EXCEPT !.runs[r].pc = "done", !.runs[r].pos = 0]

\* The end of processPendingFileOperations: pendingUploads.clear() and
\* pendingDeletes.clear(). The iterators of the other runs have nothing
\* behind them any more.
FinishRun(F, r) ==
  [F EXCEPT !.pu = <<>>, !.pd = <<>>,
            !.runs = [q \in DOMAIN F.runs |->
                        IF q = r THEN [F.runs[q] EXCEPT !.pc = "done", !.pos = 0]
                        ELSE [F.runs[q] EXCEPT !.pos = 0]]]

\* The second loop: the next id of pendingDeletes is sent with
\* _actualDeleteFile (DELETE /files/{id}), or the run ends.
NextDelete(F, r, pos) ==
  LET i == IterNext(F.pd, pos)
  IN IF i = 0 THEN FinishRun(F, r)
     ELSE [F EXCEPT !.reqs = @ \cup {Request("DELETE", F.pd[i].key, 0, r,
                                                F.runs[r].sent + 1)},
                    !.runs[r].sent = @ + 1,
                    !.runs[r].pc = "delete",
                    !.runs[r].pos = i,
                    !.runs[r].cur = F.pd[i].key,
                    !.runs[r].file = 0]

\* The first loop: the next entry of pendingUploads is sent with
\* _actualUploadFile (POST /files), or the second loop starts.
NextUpload(F, r, pos) ==
  LET i == IterNext(F.pu, pos)
  IN IF i = 0 THEN NextDelete(F, r, 0)
     ELSE [F EXCEPT !.reqs = @ \cup {Request("POST", F.pu[i].key, F.pu[i].value,
                                                r, F.runs[r].sent + 1)},
                    !.runs[r].sent = @ + 1,
                    !.runs[r].pc = "upload",
                    !.runs[r].pos = i,
                    !.runs[r].cur = F.pu[i].key,
                    !.runs[r].file = F.pu[i].value]

SetFiles(F) ==
  /\ pendingUploads' = F.pu
  /\ pendingDeletes' = F.pd
  /\ requests' = F.reqs
  /\ runs' = F.runs

NewRun == [pc |-> "start", pos |-> 0, cur |-> NoId, file |-> 0, sent |-> 0,
           uploads |-> {}, deletes |-> <<>>, errors |-> <<>>]

\* chefsApi.processPendingFileOperations()
ProcessPendingFileOperations ==
  /\ Len(runs) < MaxRuns
  /\ LET r == Len(runs) + 1
     IN SetFiles(NextUpload([FileState EXCEPT !.runs = Append(@, NewRun)], r, 0))
  /\ UNCHANGED <<uploadedFiles, now, nextFile, lastUpload, lastGet>>

\* The response to POST /files arrives.
UploadSettled(r, ok) ==
  /\ runs[r].pc = "upload"
  /\ LET id == runs[r].cur
         result == [stored |-> runs[r].file]
         F1 == IF ok
                 THEN [FileState EXCEPT
                         !.runs[r].uploads =
                            {u \in @ : u.id # id} \cup {[id |-> id, result |-> result]}]
                 ELSE [FileState EXCEPT
                         !.runs[r].errors = Append(@, [type |-> "upload", id |-> id])]
     IN /\ SetFiles(NextUpload(F1, r, runs[r].pos))
        /\ uploadedFiles' =
             IF ok THEN {u \in uploadedFiles : u.id # id}
                          \cup {[id |-> id, result |-> result]}
                   ELSE uploadedFiles
  /\ UNCHANGED <<now, nextFile, lastUpload, lastGet>>

\* The response to DELETE /files/{id} arrives.
DeleteSettled(r, ok) ==
  /\ runs[r].pc = "delete"
  /\ LET id == runs[r].cur
         F1 == IF ok
                 THEN [FileState EXCEPT !.runs[r].deletes = Append(@, id)]
                 ELSE [FileState EXCEPT
                         !.runs[r].errors = Append(@, [type |-> "delete", id |-> id])]
     IN SetFiles(NextDelete(F1, r, runs[r].pos))
  /\ UNCHANGED <<uploadedFiles, now, nextFile, lastUpload, lastGet>>

FilesInit ==
  /\ pendingUploads = <<>>
  /\ pendingDeletes = <<>>
  /\ uploadedFiles = {}
  /\ requests = {}
  /\ runs = <<>>
  /\ now = 0
  /\ nextFile = 1
  /\ lastUpload = NoDescriptor
  /\ lastGet = NoGet

otherThanFiles == <<loaderVars, storeVars, submitVars, chefsConfig, authVars, rendererVars,
                   deployVars>>

FilesNext ==
  \/ \E time \in now..MaxNow, rand \in RandomParts :
       UploadFile(time, rand) /\ UNCHANGED otherThanFiles
  \/ \E id \in KnownIds : DeleteFile(id) /\ UNCHANGED otherThanFiles
  \/ ProcessPendingFileOperations /\ UNCHANGED otherThanFiles
  \/ \E r \in DOMAIN runs, ok \in BOOLEAN :
       UploadSettled(r, ok) /\ UNCHANGED otherThanFiles
  \/ \E r \in DOMAIN runs, ok \in BOOLEAN :
       DeleteSettled(r, ok) /\ UNCHANGED otherThanFiles

\* No processPendingFileOperations call is between its start and its return.
NoRunInProgress == \A r \in DOMAIN runs : runs[r].pc = "done"

\* The file operations with nothing interleaved into a run of
\* processPendingFileOperations: files are queued and deleted between runs.
ProcessNext ==
  \/ /\ NoRunInProgress
     /\ \E time \in now..MaxNow, rand \in RandomParts : UploadFile(time, rand)
     /\ UNCHANGED otherThanFiles
  \/ /\ NoRunInProgress
     /\ \E id \in KnownIds : DeleteFile(id)
     /\ UNCHANGED otherThanFiles
  \/ /\ NoRunInProgress
     /\ ProcessPendingFileOperations
     /\ UNCHANGED otherThanFiles
  \/ \E r \in DOMAIN runs, ok \in BOOLEAN :
       UploadSettled(r, ok) /\ UNCHANGED otherThanFiles
  \/ \E r \in DOMAIN runs, ok \in BOOLEAN :
       DeleteSettled(r, ok) /\ UNCHANGED otherThanFiles

\* The file operations together with getFile.
DownloadNext ==
  \/ FilesNext
  \/ \E id \in TempIds \cup RealIds : GetFile(id) /\ UNCHANGED otherThanFiles
  \/ \E ok \in BOOLEAN : GetFileSettled(ok) /\ UNCHANGED otherThanFiles

\* Every response the network owes arrives.
FilesFairness ==
  /\ WF_vars(\E r \in DOMAIN runs, ok \in BOOLEAN : UploadSettled(r, ok))
  /\ WF_vars(\E r \in DOMAIN runs, ok \in BOOLEAN : DeleteSettled(r, ok))

(***************************************************************************)
(* Authentication of the API service (chefsApi.js).                        *)
(***************************************************************************)
\* this.config after the constructor (the timeout is left out).
ConstructorConfig == [baseApiUrl |-> "", formId |-> "", apiKey |-> ""]

NoToken == "null"

\* The values JavaScript takes for false among those of the model.
Falsy == {"", "null", "undefined"}

Truthy(x) == x \notin Falsy

\* The bytes of the strings of the model ('f' 102, 'k' 107, 't' 116,
\* '1' 49, '2' 50).
Bytes(str) ==
  CASE str = "f1" -> <<102, 49>>
    [] str = "f2" -> <<102, 50>>
    [] str = "k1" -> <<107, 49>>
    [] str = "k2" -> <<107, 50>>
    [] str = "t1" -> <<116, 49>>
    [] OTHER -> <<>>

\* btoa: three bytes become four indices into the base64 alphabet, the
\* last group is padded with '=' (written 64).
RECURSIVE btoa(_)
btoa(b) ==
  IF Len(b) = 0 THEN <<>>
  ELSE IF Len(b) = 1
    THEN <<b[1] \div 4, (b[1] % 4) * 16, 64, 64>>
  ELSE IF Len(b) = 2
    THEN <<b[1] \div 4, (b[1] % 4) * 16 + (b[2] \div 16), (b[2] % 16) * 4, 64>>
  ELSE <<b[1] \div 4, (b[1] % 4) * 16 + (b[2] \div 16),
         (b[2] % 16) * 4 + (b[3] \div 64), b[3] % 64>>
       \o btoa(SubSeq(b, 4, Len(b)))

NoHeader == [scheme |-> "none", value |-> <<>>, apiKey |-> ""]

\* `Bearer ${token}`
Bearer(token) == [scheme |-> "Bearer", value |-> Bytes(token), apiKey |-> ""]

\* `Basic ${btoa(`${formId}:${apiKey}`)}`, ':' being byte 58
Basic(formId, apiKey) ==
  [scheme |-> "Basic", value |-> btoa(Bytes(formId) \o <<58>> \o Bytes(apiKey)),
   apiKey |-> ""]

\* An apiClient interceptor that knows bearer tokens only.
ApiClientAuthorizationTokenOnly(cfg, token) ==
  IF Truthy(token) THEN Bearer(token) ELSE NoHeader

\* The request interceptor of apiClient: Authorization and X-API-KEY.
ApiClientAuthorization(cfg, token) ==
  IF Truthy(token) THEN Bearer(token)
  ELSE IF Truthy(cfg.apiKey) /\ Truthy(cfg.formId)
    THEN [Basic(cfg.formId, cfg.apiKey) EXCEPT !.apiKey = cfg.apiKey]
    ELSE NoHeader

\* The URLs of the requests, as their path segments.
Urls ==
  [moduleVersions |-> <<"forms", "id", "versions", "vid", "formModuleVersions">>,
   schema |-> <<"forms", "id", "version">>,
   upload |-> <<"files">>,
   download |-> <<"files", "id">>,
   delete |-> <<"files", "id">>]

\* config.url?.includes(route) for the routes '/files' and '/submissions'
RequiresAuth(url) ==
  \E k \in DOMAIN url : url[k] \in {"files", "submissions"}

\* A fileClient interceptor that prefers the API key to the token.
FileClientAuthorizationKeyFirst(cfg, token, url) ==
  IF RequiresAuth(url)
    THEN IF Truthy(cfg.apiKey) /\ Truthy(cfg.formId)
           THEN [Basic(cfg.formId, cfg.apiKey) EXCEPT !.apiKey = cfg.apiKey]
           ELSE IF Truthy(token) THEN Bearer(token) ELSE NoHeader
    ELSE NoHeader

\* The request interceptor of fileClient.
FileClientAuthorization(cfg, token, url) ==
  IF RequiresAuth(url)
    THEN IF Truthy(token) THEN Bearer(token)
         ELSE IF Truthy(cfg.apiKey) /\ Truthy(cfg.formId)
           THEN [Basic(cfg.formId, cfg.apiKey) EXCEPT !.apiKey = cfg.apiKey]
           ELSE NoHeader
    ELSE NoHeader

\* getCurrentAuthHeader(): the Authorization value, null being NoHeader.
getCurrentAuthHeader(cfg, token) ==
  IF Truthy(token) THEN [scheme |-> "Bearer", value |-> Bytes(token)]
  ELSE IF Truthy(cfg.apiKey) /\ Truthy(cfg.formId)
    THEN [scheme |-> "Basic",
          value |-> btoa(Bytes(cfg.formId) \o <<58>> \o Bytes(cfg.apiKey))]
    ELSE [scheme |-> "none", value |-> <<>>]

\* initialize(config): { ...this.config, ...config }
initialize(cfg, config) ==
  [k \in DOMAIN cfg |-> IF k \in DOMAIN config THEN config[k] ELSE cfg[k]]

\* setCredentials(formId, apiKey)
setCredentials(cfg, formId, apiKey) ==
  [cfg EXCEPT !.formId = formId, !.apiKey = apiKey]

\* The configurations handed to initialize: any subset of the three keys.
FormIds == {"", "f1", "f2"}

ApiKeys == {"", "k1"}

BaseUrls == {"", "b1"}

Tokens == {NoToken, "", "t1"}

ApiConfigs ==
  [baseApiUrl : BaseUrls, formId : FormIds, apiKey : ApiKeys]
    \cup [formId : FormIds, apiKey : ApiKeys] \cup [baseApiUrl : BaseUrls]

Initialize(config) ==
  /\ chefsConfig' = initialize(chefsConfig, config)
  /\ UNCHANGED <<authToken, sent>>

SetCredentials(formId, apiKey) ==
  /\ chefsConfig' = setCredentials(chefsConfig, formId, apiKey)
  /\ UNCHANGED <<authToken, sent>>

\* setAuthToken(token)
SetAuthToken(token) ==
  /\ authToken' = token
  /\ UNCHANGED <<chefsConfig, sent>>

\* getFormModuleVersions and getFormSchema: a GET through apiClient.
ApiClientRequest(kind) ==
  /\ Cardinality(sent) < MaxRequests
  /\ sent' = sent \cup {[kind |-> kind, client |-> "apiClient",
                          headers |-> ApiClientAuthorization(chefsConfig, authToken)]}
  /\ UNCHANGED <<chefsConfig, authToken>>

\* _actualUploadFile, getFile and _actualDeleteFile: through fileClient.
FileClientRequest(kind) ==
  /\ Cardinality(sent) < MaxRequests
  /\ sent' = sent \cup {[kind |-> kind, client |-> "fileClient",
                          headers |-> FileClientAuthorization(chefsConfig, authToken,
                                                             Urls[kind])]}
  /\ UNCHANGED <<chefsConfig, authToken>>

AuthInit ==
  /\ authToken = NoToken
  /\ sent = {}

otherThanAuth == <<loaderVars, fileVars, storeVars, submitVars, rendererVars, deployVars>>

AuthNext ==
  \/ \E config \in ApiConfigs : Initialize(config) /\ UNCHANGED otherThanAuth
  \/ \E formId \in FormIds, apiKey \in ApiKeys :
       SetCredentials(formId, apiKey) /\ UNCHANGED otherThanAuth
  \/ \E token \in Tokens : SetAuthToken(token) /\ UNCHANGED otherThanAuth
  \/ \E kind \in {"moduleVersions", "schema"} :
       ApiClientRequest(kind) /\ UNCHANGED otherThanAuth
  \/ \E kind \in {"upload", "download", "delete"} :
       FileClientRequest(kind) /\ UNCHANGED otherThanAuth

(***************************************************************************)
(* The form store (useChefsFormStore) and the shell (EmbeddedForm.vue).    *)
(***************************************************************************)
NoError == "null"

ErrIncomplete == "Form configuration is incomplete. Please check environment variables."

ErrInitFailed == "Failed to initialize form: ..."

ErrRender == "Form rendering error: ..."

Submissions == {"s1", "s2"}

NoSubmission == "null"

Config(formId, formVersionId, apiKey, baseApiUrl) ==
  [formId |-> formId, formVersionId |-> formVersionId, apiKey |-> apiKey,
   baseApiUrl |-> baseApiUrl]

\* The configurations the environment variables can give: apiUrl always has
\* a value (its default), the other three may be empty.
EnvConfigs ==
  {Config("f1", "v1", "k1", "b1"), Config("f1", "", "k1", "b1"),
   Config("f1", "v1", "", "b1")}

\* The configurations the panel lets the user apply (all four fields filled).
PanelConfigs == {Config("f2", "v2", "k1", "b1")}

NoModuleVersion == [form |-> "null", version |-> "null", externalUris |-> <<>>]

NoSchema == [form |-> "null", version |-> "null"]

\* The versions a form has on the server.
FormVersionIds == {"v1", "v2"}

\* A form module version of the given form version, as the API returns it.
ModuleVersion(formId, formVersionId, uris) ==
  [form |-> formId, version |-> formVersionId, externalUris |-> uris]

\* The bodies GET .../formModuleVersions may answer with for a form version.
ModuleVersionLists(formId, formVersionId) ==
  {<<>>, <<ModuleVersion(formId, formVersionId, <<>>)>>,
   <<ModuleVersion(formId, formVersionId, <<"u1">>)>>}

\* The results getFormSchema may give for GET /forms/{formId}/version: the
\* schema of the first entry of the form's versions array, whichever version
\* the server lists first, or nothing.
Schemas(formId) ==
  {NoSchema} \cup {[form |-> formId, version |-> v] : v \in FormVersionIds}

\* isFullyConfigured.value
isFullyConfigured ==
  /\ formConfig.baseApiUrl # ""
  /\ formConfig.formId # ""
  /\ formConfig.formVersionId # ""
  /\ formConfig.apiKey # ""

\* `!isFullyConfigured` in EmbeddedForm.vue tests the ref object that
\* storeToRefs returned, not its value: an object is never falsy.
RefIsFalsy == FALSE

\* The template's v-if of the form container: the renderer is mounted.
RendererMounted == isFormReady /\ ~loading /\ error = NoError

\* The store and the loader, threaded through the synchronous part of a task.
StoreState ==
  [loading |-> loading, error |-> error, versions |-> formModuleVersions,
   selected |-> selectedFormModuleVersion, schema |-> formSchema,
   ready |-> isFormReady, submission |-> submissionData, inits |-> inits,
   fetches |-> fetches, loader |-> LoaderState]

SetStore(S) ==
  /\ loading' = S.loading
  /\ error' = S.error
  /\ formModuleVersions' = S.versions
  /\ selectedFormModuleVersion' = S.selected
  /\ formSchema' = S.schema
  /\ isFormReady' = S.ready
  /\ submissionData' = S.submission
  /\ inits' = S.inits
  /\ fetches' = S.fetches
  /\ SetLoader(S.loader)

\* reset() that forgets to clear the data of the last initialization.
resetFlagsOnly(S) == [S EXCEPT !.loading = FALSE, !.error = NoError]

\* store.reset()
reset(S) ==
  [S EXCEPT !.loading = FALSE, !.error = NoError, !.versions = <<>>,
            !.selected = NoModuleVersion, !.schema = NoSchema,
            !.submission = NoSubmission, !.ready = FALSE]

\* The catch blocks an exception passes on its way out of initializeForm:
\* the store's (error = 'Failed to initialize form: ...') and the shell's.
InitFailed(S, i, cause) ==
  [S EXCEPT !.error = ErrInitFailed, !.inits[i].pc = "failed",
            !.inits[i].cause = cause]

\* fetchFormSchema up to its await, then the rest of initializeForm.
fetchFormSchema(S, i, cfg) ==
  IF cfg.formId = "" \/ cfg.formVersionId = ""
    THEN InitFailed(S, i, "required")
    ELSE [S EXCEPT !.loading = TRUE, !.error = NoError,
                   !.fetches = @ \cup {[kind |-> "schema", formId |-> cfg.formId,
                                         formVersionId |-> "", init |-> i]},
                   !.inits[i].pc = "schema",
                   !.inits[i].steps = Append(@, "schema")]

\* loadExternalResources up to its await on the component loader; with no
\* URI, or every URI cached, initializeForm goes on to the schema fetch.
loadExternalResources(S, i, cfg, reg) ==
  LET uris == S.selected.externalUris
      S1 == [S EXCEPT !.inits[i].steps = Append(@, "external")]
  IN IF uris = <<>>
       THEN fetchFormSchema(S1, i, cfg)
       ELSE LET c == Len(S.loader.calls) + 1
                L0 == [S.loader EXCEPT
                         !.calls = Append(@, [uris |-> uris, i |-> 1, pc |-> "run",
                                              p |-> 0, results |-> <<>>])]
                L1 == RunLoop(L0, c, reg)
                S2 == [S1 EXCEPT !.loader = L1]
            IN IF L1.calls[c].pc = "done"
                 THEN fetchFormSchema(S2, i, cfg)
                 ELSE [S2 EXCEPT !.inits[i].pc = "external", !.inits[i].call = c]

\* fetchFormModuleVersions up to its await.
fetchFormModuleVersions(S, i, cfg) ==
  [S EXCEPT !.loading = TRUE, !.error = NoError,
            !.fetches = @ \cup {[kind |-> "moduleVersions", formId |-> cfg.formId,
                                  formVersionId |-> cfg.formVersionId, init |-> i]},
            !.inits[i].pc = "moduleVersions",
            !.inits[i].steps = Append(@, "moduleVersions")]

\* initializeFormData calling the fetches without the test of
\* isFullyConfigured.value.
initializeFormDataUnchecked(S, via, configured) ==
  LET i == Len(S.inits) + 1
      S1 == [S EXCEPT !.inits = Append(@, [via |-> via, pc |-> "start",
                                           cause |-> "", steps |-> <<>>,
                                           call |-> 0])]
  IN fetchFormModuleVersions(S1, i, formConfig)

\* initializeFormData(), and initializeForm() up to its first await.
initializeFormData(S, via, configured) ==
  LET i == Len(S.inits) + 1
      S1 == [S EXCEPT !.inits = Append(@, [via |-> via, pc |-> "start",
                                           cause |-> "", steps |-> <<>>,
                                           call |-> 0])]
  IN IF RefIsFalsy
       THEN [S1 EXCEPT !.error = ErrIncomplete, !.inits[i].pc = "failed",
                       !.inits[i].cause = "configuration"]
       ELSE IF ~configured
              THEN [S1 EXCEPT !.error = ErrIncomplete, !.inits[i].pc = "failed",
                              !.inits[i].cause = "configuration"]
              ELSE fetchFormModuleVersions(S1, i, formConfig)

\* onMounted of the shell.
Mount(autoLoad) ==
  /\ ~shellMounted
  /\ shellMounted' = TRUE
  /\ IF autoLoad /\ ~RefIsFalsy
       THEN SetStore(initializeFormData(StoreState, "mount", isFullyConfigured))
       ELSE SetStore(StoreState)
  /\ UNCHANGED <<formConfig, chefsConfig, timers, registry, emitted>>

\* retryLoad without the reset of the data.
retryLoadKeepingData ==
  /\ shellMounted
  /\ Len(inits) < MaxInits
  /\ SetStore(initializeFormData(resetFlagsOnly(StoreState), "retry", isFullyConfigured))
  /\ UNCHANGED <<formConfig, chefsConfig, timers, registry, emitted, shellMounted>>

\* retryLoad(): the Retry button of the error panel, or the exposed method.
retryLoad ==
  /\ shellMounted
  /\ Len(inits) < MaxInits
  /\ SetStore(initializeFormData(reset(StoreState), "retry", isFullyConfigured))
  /\ UNCHANGED <<formConfig, chefsConfig, timers, registry, emitted, shellMounted>>

\* The exposed initializeForm (initializeFormData, with no reset).
ExposedInitializeForm ==
  /\ shellMounted
  /\ Len(inits) < MaxInits
  /\ SetStore(initializeFormData(StoreState, "exposed", isFullyConfigured))
  /\ UNCHANGED <<formConfig, chefsConfig, timers, registry, emitted, shellMounted>>

\* handleConfigurationChange(newConfig) up to its await on the timer.
handleConfigurationChange(newConfig) ==
  /\ shellMounted
  /\ timers < MaxChanges
  /\ Len(inits) + timers < MaxInits
  /\ SetStore(reset(StoreState))
  /\ formConfig' = newConfig
  /\ chefsConfig' = [baseApiUrl |-> newConfig.baseApiUrl,
                     formId |-> newConfig.formId, apiKey |-> newConfig.apiKey]
  /\ timers' = timers + 1
  /\ UNCHANGED <<registry, emitted, shellMounted>>

\* The 100 ms timer fires: await initializeFormData().
ConfigurationTimer ==
  /\ timers > 0
  /\ timers' = timers - 1
  /\ SetStore(initializeFormData(StoreState, "configuration", isFullyConfigured))
  /\ UNCHANGED <<formConfig, chefsConfig, registry, emitted, shellMounted>>

\* The request of the given kind that initialization i is waiting on.
RequestOf(i, kind) == CHOOSE q \in fetches : q.init = i /\ q.kind = kind

\* The answer to GET .../formModuleVersions arrives with a body.
ModuleVersionsFetched(i, data) ==
  /\ inits[i].pc = "moduleVersions"
  /\ LET S1 == [StoreState EXCEPT
                  !.versions = data,
                  !.selected = IF Len(data) > 0 THEN data[1] ELSE @,
                  !.loading = FALSE]
     IN SetStore(IF Len(S1.versions) = 0
                   THEN InitFailed(S1, i, "empty")
                   ELSE loadExternalResources(S1, i, formConfig, registry))
  /\ UNCHANGED <<formConfig, chefsConfig, timers, registry, emitted, shellMounted>>

\* GET .../formModuleVersions fails.
ModuleVersionsFailed(i) ==
  /\ inits[i].pc = "moduleVersions"
  /\ SetStore(InitFailed([StoreState EXCEPT !.loading = FALSE], i, "network"))
  /\ UNCHANGED <<formConfig, chefsConfig, timers, registry, emitted, shellMounted>>

\* The answer to GET /forms/{id}/version arrives; setFormReady(true) follows
\* a schema that is not null.
SchemaFetched(i, data) ==
  /\ inits[i].pc = "schema"
  /\ LET S1 == [StoreState EXCEPT !.schema = data, !.loading = FALSE]
     IN SetStore(IF S1.schema = NoSchema
                   THEN InitFailed(S1, i, "noSchema")
                   ELSE [S1 EXCEPT !.ready = TRUE, !.inits[i].pc = "done"])
  /\ UNCHANGED <<formConfig, chefsConfig, timers, registry, emitted, shellMounted>>

\* GET /forms/{id}/version fails.
SchemaFailed(i) ==
  /\ inits[i].pc = "schema"
  /\ SetStore(InitFailed([StoreState EXCEPT !.loading = FALSE], i, "network"))
  /\ UNCHANGED <<formConfig, chefsConfig, timers, registry, emitted, shellMounted>>

\* The initializations whose loadExternalComponents call has returned go on
\* to the schema fetch, in the order of their calls.
RECURSIVE ResumeInits(_, _, _, _)
ResumeInits(S, i, cfg, reg) ==
  IF i > Len(S.inits) THEN S
  ELSE IF S.inits[i].pc = "external" /\ S.loader.calls[S.inits[i].call].pc = "done"
         THEN ResumeInits(fetchFormSchema(S, i, cfg), i + 1, cfg, reg)
         ELSE ResumeInits(S, i + 1, cfg, reg)

\* script.onload or script.onerror of an external component script, with
\* the continuations of the store that it resumes.
ExternalScriptSettled(s, ok) ==
  /\ scripts[s].state = "pending"
  /\ LET after == IF ok THEN registry \cup Provides(scripts[s].uri) ELSE registry
         info == IF ok THEN ComponentInfo(scripts[s].uri, scripts[s].before,
                                          getRegisteredComponents(after))
                       ELSE NoInfo
         L0 == [LoaderState EXCEPT
                  !.scripts[s].state = IF ok THEN "loaded" ELSE "failed",
                  !.scripts[s].waiters = <<>>]
         L1 == ResumeAll(L0, scripts[s].waiters, ok, info, after)
     IN /\ registry' = after
        /\ SetStore(ResumeInits([StoreState EXCEPT !.loader = L1], 1, formConfig, after))
  /\ UNCHANGED <<formConfig, chefsConfig, timers, emitted, shellMounted>>

\* store.setSubmissionData(data)
setSubmissionData(S, data) == [S EXCEPT !.submission = data]

\* A handler that drops the submission.
handleFormSubmissionDropped(S, data) == S

\* EmbeddedForm.handleFormSubmission(data)
handleFormSubmission(S, data) == setSubmissionData(S, data)

\* The form instance fires 'submit'; the renderer's listener re-emits it to
\* the shell, whose handler is handleFormSubmission.
FormSubmit(data) ==
  /\ RendererMounted
  /\ Len(emitted) < MaxSubmits
  /\ emitted' = Append(emitted, data)
  /\ SetStore(handleFormSubmission(StoreState, data))
  /\ UNCHANGED <<formConfig, chefsConfig, timers, registry, shellMounted>>

\* The renderer emits 'error': handleFormError.
FormError ==
  /\ RendererMounted
  /\ SetStore([StoreState EXCEPT !.error = ErrRender])
  /\ UNCHANGED <<formConfig, chefsConfig, timers, registry, emitted, shellMounted>>

StoreInit ==
  /\ loading = FALSE
  /\ error = NoError
  /\ formModuleVersions = <<>>
  /\ selectedFormModuleVersion = NoModuleVersion
  /\ formSchema = NoSchema
  /\ isFormReady = FALSE
  /\ submissionData = NoSubmission
  /\ formConfig \in EnvConfigs
  /\ inits = <<>>
  /\ timers = 0
  /\ fetches = {}
  /\ shellMounted = FALSE
  /\ emitted = <<>>
  /\ chefsConfig = IF formConfig.formId # "" /\ formConfig.apiKey # ""
                     THEN setCredentials(ConstructorConfig, formConfig.formId,
                                         formConfig.apiKey)
                     ELSE ConstructorConfig

otherThanStore == <<fileVars, authVars, rendererVars, deployVars>>

StoreNext ==
  \/ \E autoLoad \in BOOLEAN : Mount(autoLoad) /\ UNCHANGED otherThanStore
  \/ retryLoad /\ UNCHANGED otherThanStore
  \/ ExposedInitializeForm /\ UNCHANGED otherThanStore
  \/ \E newConfig \in PanelConfigs :
       handleConfigurationChange(newConfig) /\ UNCHANGED otherThanStore
  \/ ConfigurationTimer /\ UNCHANGED otherThanStore
  \/ \E i \in {j \in DOMAIN inits : inits[j].pc = "moduleVersions"} :
       \E data \in ModuleVersionLists(RequestOf(i, "moduleVersions").formId,
                                      RequestOf(i, "moduleVersions").formVersionId) :
         ModuleVersionsFetched(i, data) /\ UNCHANGED otherThanStore
  \/ \E i \in DOMAIN inits : ModuleVersionsFailed(i) /\ UNCHANGED otherThanStore
  \/ \E i \in {j \in DOMAIN inits : inits[j].pc = "schema"} :
       \E data \in Schemas(RequestOf(i, "schema").formId) :
         SchemaFetched(i, data) /\ UNCHANGED otherThanStore
  \/ \E i \in DOMAIN inits : SchemaFailed(i) /\ UNCHANGED otherThanStore
  \/ \E s \in DOMAIN scripts, ok \in BOOLEAN :
       ExternalScriptSettled(s, ok) /\ UNCHANGED otherThanStore
  \/ \E data \in Submissions : FormSubmit(data) /\ UNCHANGED otherThanStore
  \/ FormError /\ UNCHANGED otherThanStore

(***************************************************************************)
(* The form renderer (FormIORenderer.vue), one component instance from its *)
(* mounting to after its unmounting.                                       *)
(***************************************************************************)
NoRenderError == "null"

SchemaProps == {"null", "schemaA", "schemaB"}

\* props.apiConfig as the shell passes it: the three keys, formId and apiKey
\* possibly without a value.
ApiConfigProps == [baseApiUrl : {"b1"}, formId : {"", "f1"}, apiKey : {"", "k1"}]

\* The default of baseApiUrl in renderForm's fileServiceConfig.
DefaultBaseApiUrl == "https://chefs-dev.apps.silver.devops.gov.bc.ca/pr-1736/api/v1"

RendererState ==
  [formInstance |-> formInstance, isLoading |-> isLoading,
   error |-> rendererError, renders |-> renders, instances |-> instances,
   chefs |-> chefsConfig]

SetRenderer(R) ==
  /\ formInstance' = R.formInstance
  /\ isLoading' = R.isLoading
  /\ rendererError' = R.error
  /\ renders' = R.renders
  /\ instances' = R.instances
  /\ chefsConfig' = R.chefs

\* formInstance.value.destroy(); formInstance.value = null
DestroyInstance(R) ==
  IF R.formInstance # 0
    THEN [R EXCEPT !.instances[R.formInstance] = "destroyed", !.formInstance = 0]
    ELSE R

\* renderForm() up to its await on Formio.createForm; formContainer.value is
\* set while the component is mounted.
renderForm(R, hasContainer, schema, apiConfig) ==
  LET R1 == [R EXCEPT !.isLoading = TRUE, !.error = NoRenderError]
      R2 == DestroyInstance(R1)
      R3 == IF R2.chefs.baseApiUrl = ""
              THEN [R2 EXCEPT !.chefs =
                      initialize(@, [baseApiUrl |-> IF Truthy(apiConfig.baseApiUrl)
                                                     THEN apiConfig.baseApiUrl
                                                     ELSE DefaultBaseApiUrl,
                                     formId |-> apiConfig.formId,
                                     apiKey |-> apiConfig.apiKey])]
              ELSE R2
  IN IF ~hasContainer THEN R1
     ELSE [R3 EXCEPT !.renders = Append(@, [pc |-> "creating", schema |-> schema])]

\* onMounted: nextTick(renderForm) when autoRender and a schema are given.
RendererMounts(schema, apiConfig, autoRender) ==
  /\ rendererMounted = "no"
  /\ rendererMounted' = "mounted"
  /\ schemaProp' = schema
  /\ apiConfigProp' = apiConfig
  /\ IF autoRender /\ Truthy(schema)
       THEN SetRenderer(renderForm(RendererState, TRUE, schema, apiConfig))
       ELSE SetRenderer(RendererState)

\* watch(() => props.schema): nextTick(renderForm) when the new schema is
\* not null.
SchemaChanged(schema) ==
  /\ rendererMounted = "mounted"
  /\ schema # schemaProp
  /\ Len(renders) < MaxRenders
  /\ schemaProp' = schema
  /\ IF Truthy(schema)
       THEN SetRenderer(renderForm(RendererState, TRUE, schema, apiConfigProp))
       ELSE SetRenderer(RendererState)
  /\ UNCHANGED <<rendererMounted, apiConfigProp>>

\* retryRender(): the Retry button of the renderer, or the exposed method.
retryRender ==
  /\ rendererMounted = "mounted"
  /\ Len(renders) < MaxRenders
  /\ SetRenderer(renderForm([RendererState EXCEPT !.error = NoRenderError],
                            TRUE, schemaProp, apiConfigProp))
  /\ UNCHANGED <<rendererMounted, schemaProp, apiConfigProp>>

\* The exposed renderForm called after the unmounting: no container.
RenderFormUnmounted ==
  /\ rendererMounted = "unmounted"
  /\ SetRenderer(renderForm(RendererState, FALSE, schemaProp, apiConfigProp))
  /\ UNCHANGED <<rendererMounted, schemaProp, apiConfigProp>>

\* Formio.createForm resolves: the rest of renderForm.
CreateFormResolved(r) ==
  /\ renders[r].pc = "creating"
  /\ instances' = Append(instances, "live")
  /\ formInstance' = Len(instances) + 1
  /\ isLoading' = FALSE
  /\ renders' = [renders EXCEPT ![r].pc = "ready"]
  /\ UNCHANGED <<rendererMounted, schemaProp, apiConfigProp, rendererError,
                 chefsConfig>>

\* Formio.createForm rejects: the catch block of renderForm.
CreateFormRejected(r) ==
  /\ renders[r].pc = "creating"
  /\ rendererError' = "createForm failed"
  /\ isLoading' = FALSE
  /\ renders' = [renders EXCEPT ![r].pc = "error"]
  /\ UNCHANGED <<rendererMounted, schemaProp, apiConfigProp, formInstance,
                 instances, chefsConfig>>

\* onUnmounted: destroyForm().
RendererUnmounts ==
  /\ rendererMounted = "mounted"
  /\ rendererMounted' = "unmounted"
  /\ SetRenderer(DestroyInstance(RendererState))
  /\ UNCHANGED <<schemaProp, apiConfigProp>>

RendererInit ==
  /\ rendererMounted = "no"
  /\ schemaProp = "null"
  /\ apiConfigProp = [baseApiUrl |-> "", formId |-> "", apiKey |-> ""]
  /\ formInstance = 0
  /\ isLoading = FALSE
  /\ rendererError = NoRenderError
  /\ renders = <<>>
  /\ instances = <<>>

otherThanRenderer == <<loaderVars, fileVars, storeVars, submitVars, authVars, deployVars>>

RendererNext ==
  \/ \E schema \in SchemaProps, apiConfig \in ApiConfigProps, autoRender \in BOOLEAN :
       RendererMounts(schema, apiConfig, autoRender) /\ UNCHANGED otherThanRenderer
  \/ \E schema \in SchemaProps : SchemaChanged(schema) /\ UNCHANGED otherThanRenderer
  \/ retryRender /\ UNCHANGED otherThanRenderer
  \/ RenderFormUnmounted /\ UNCHANGED otherThanRenderer
  \/ \E r \in DOMAIN renders : CreateFormResolved(r) /\ UNCHANGED otherThanRenderer
  \/ \E r \in DOMAIN renders : CreateFormRejected(r) /\ UNCHANGED otherThanRenderer
  \/ RendererUnmounts /\ UNCHANGED otherThanRenderer

(***************************************************************************)
(* The configuration loader (getRuntimeEnv, config) and entrypoint.sh.     *)
(*                                                                         *)
(* A string is a sequence of pieces, '' the empty sequence, + the          *)
(* concatenation; a variable that is not defined reads as ''.              *)
(***************************************************************************)
ConfigKeys ==
  {"VITE_CHEFS_BASE_URL", "VITE_CHEFS_BASE_PATH", "VITE_API_FORM_ID",
   "VITE_API_FORM_VERSION_ID", "VITE_API_KEY"}

\* The value a variable has in the container at run time, or at build time.
RuntimeValue(key) == <<"runtime", key>>

BuildValue(key) == <<"build", key>>

\* The environments: each key set or not.
RuntimeEnvs == [ConfigKeys -> BOOLEAN]

DefaultApiUrl == <<"https://submit.digital.gov.bc.ca/app/api/v1">>

NoEnvConfig == [present |-> FALSE, vars |-> [k \in ConfigKeys |-> <<>>]]

NoAppConfig ==
  [loaded |-> FALSE, apiUrl |-> <<>>, formId |-> <<>>, formVersionId |-> <<>>,
   apiKey |-> <<>>]

\* a || b for strings
OrElse(a, b) == IF a # <<>> THEN a ELSE b

\* getRuntimeEnv(key, fallback)
getRuntimeEnv(env, vite, key, fallback) ==
  IF env.present
    THEN OrElse(env.vars[key], fallback)
    ELSE OrElse(vite[key], fallback)

\* The build defines import.meta.env for the variables set at build time.
ViteBuild(set) ==
  /\ ~appConfig.loaded
  /\ viteEnv' = [k \in ConfigKeys |-> IF set[k] THEN BuildValue(k) ELSE <<>>]
  /\ UNCHANGED <<envConfig, appConfig>>

\* entrypoint.sh writes env-config.js: every key, "" for an unset variable.
EntrypointSh(set) ==
  /\ ~appConfig.loaded
  /\ envConfig' = [present |-> TRUE,
                   vars |-> [k \in ConfigKeys |->
                               IF set[k] THEN RuntimeValue(k) ELSE <<>>]]
  /\ UNCHANGED <<viteEnv, appConfig>>

\* The module of the configuration loader is evaluated.
LoadConfig ==
  /\ ~appConfig.loaded
  /\ appConfig' =
       [loaded |-> TRUE,
        apiUrl |-> OrElse(getRuntimeEnv(envConfig, viteEnv, "VITE_CHEFS_BASE_URL", <<>>)
                            \o getRuntimeEnv(envConfig, viteEnv,
                                              "VITE_CHEFS_BASE_PATH", <<>>),
                          DefaultApiUrl),
        formId |-> getRuntimeEnv(envConfig, viteEnv, "VITE_API_FORM_ID", <<>>),
        formVersionId |-> getRuntimeEnv(envConfig, viteEnv,
                                        "VITE_API_FORM_VERSION_ID", <<>>),
        apiKey |-> getRuntimeEnv(envConfig, viteEnv, "VITE_API_KEY", <<>>)]
  /\ UNCHANGED <<envConfig, viteEnv>>

ConfigInit ==
  /\ envConfig = NoEnvConfig
  /\ viteEnv = [k \in ConfigKeys |-> <<>>]
  /\ appConfig = NoAppConfig

otherThanConfig == <<loaderVars, fileVars, storeVars, submitVars, chefsConfig,
                    authVars, rendererVars, proxyVars, utilVars, consoleVars>>

ConfigNext ==
  \/ \E set \in RuntimeEnvs : ViteBuild(set) /\ UNCHANGED otherThanConfig
  \/ \E set \in RuntimeEnvs : EntrypointSh(set) /\ UNCHANGED otherThanConfig
  \/ LoadConfig /\ UNCHANGED otherThanConfig

(***************************************************************************)
(* The dev proxy (vite.config.js, server.proxy['/api']).                   *)
(*                                                                         *)
(* A path is the sequence of its characters.                               *)
(***************************************************************************)
PathChars == {"/", "a", "p", "i"}

ApiPrefix == <<"/", "a", "p", "i">>

\* The request paths the proxy entry '/api' takes: /api and a remainder.
ApiPaths == {ApiPrefix \o t : t \in UNION {[1..n -> PathChars] : n \in 0..MaxTail}}

\* '/app/api/v1'
DefaultBasePath == <<"/", "a", "p", "p", "/", "a", "p", "i", "/", "v", "1">>

DefaultBaseUrl == <<"http://localhost:5173">>

\* The values of VITE_CHEFS_BASE_PATH and VITE_CHEFS_BASE_URL: unset or
\* set (to '/b', to 'https://chefs'); a base path holds no '$'.
EnvBasePaths == {<<>>, <<"/", "b">>}

EnvBaseUrls == {<<>>, <<"https://chefs">>}

\* req.headers[name]: undefined, '' or a value.
HeaderValues == {"undefined", "", "v1"}

ProxyHeaders == [authorization : HeaderValues, xApiKey : HeaderValues]

NoProxyHeaders == [authorization |-> "undefined", xApiKey |-> "undefined"]

\* s.startsWith(p)
StartsWith(s, p) == Len(s) >= Len(p) /\ SubSeq(s, 1, Len(p)) = p

\* s.indexOf(p) + 1: the place of the first occurrence of p in s, 0 for none.
FirstIndexOf(s, p) ==
  LET places == {i \in 1..(Len(s) - Len(p) + 1) : SubSeq(s, i, i + Len(p) - 1) = p}
  IN IF places = {} THEN 0 ELSE CHOOSE i \in places : \A j \in places : i <= j

\* A replace that replaces every occurrence of the pattern.
RECURSIVE replaceEvery(_, _, _)
replaceEvery(s, pattern, replacement) ==
  LET i == FirstIndexOf(s, pattern)
  IN IF i = 0 THEN s
     ELSE SubSeq(s, 1, i - 1) \o replacement
            \o replaceEvery(SubSeq(s, i + Len(pattern), Len(s)), pattern, replacement)

\* String.prototype.replace with a string pattern: the first occurrence
\* only, the replacement taken literally (it holds no '$').
replace(s, pattern, replacement) ==
  LET i == FirstIndexOf(s, pattern)
  IN IF i = 0 THEN s
     ELSE SubSeq(s, 1, i - 1) \o replacement \o SubSeq(s, i + Len(pattern), Len(s))

\* rewrite: (path) => path.replace('/api', chefsBasePath)
rewrite(path, chefsBasePath) == replace(path, ApiPrefix, chefsBasePath)

\* The proxyReq handler: Authorization and X-API-KEY are set on the
\* outgoing request when the incoming request has them.
onProxyReq(outgoing, incoming) ==
  LET h1 == IF Truthy(incoming.authorization)
              THEN [outgoing EXCEPT !.authorization = incoming.authorization]
              ELSE outgoing
  IN IF Truthy(incoming.xApiKey)
       THEN [h1 EXCEPT !.xApiKey = incoming.xApiKey]
       ELSE h1

\* defineConfig: the base URL and base path from the environment.
DefineConfig(envUrl, envPath) ==
  /\ ~proxyConfig.defined
  /\ proxyConfig' = [defined |-> TRUE,
                     chefsBaseUrl |-> OrElse(envUrl, DefaultBaseUrl),
                     chefsBasePath |-> OrElse(envPath, DefaultBasePath)]
  /\ UNCHANGED lastProxied

\* A request whose path starts with /api goes through the proxy; the proxy
\* library starts the outgoing request with the incoming headers or with
\* none (`copied`), then the proxyReq handler runs.  One request is followed.
ProxyRequest(path, headers, copied) ==
  /\ proxyConfig.defined
  /\ lastProxied = <<>>
  /\ StartsWith(path, ApiPrefix)
  /\ lastProxied' =
       <<[path |-> path, headers |-> headers, copied |-> copied,
          target |-> proxyConfig.chefsBaseUrl,
          proxyPath |-> rewrite(path, proxyConfig.chefsBasePath),
          proxyHeaders |-> onProxyReq(IF copied THEN headers ELSE NoProxyHeaders,
                                      headers)]>>
  /\ UNCHANGED proxyConfig

otherThanProxy == <<loaderVars, fileVars, storeVars, submitVars, chefsConfig,
                   authVars, rendererVars, configVars, utilVars, consoleVars>>

ProxyNext ==
  \/ \E envUrl \in EnvBaseUrls, envPath \in EnvBasePaths :
       DefineConfig(envUrl, envPath) /\ UNCHANGED otherThanProxy
  \/ \E path \in ApiPaths, headers \in ProxyHeaders, copied \in BOOLEAN :
       ProxyRequest(path, headers, copied) /\ UNCHANGED otherThanProxy

ProxyInit ==
  /\ proxyConfig = [defined |-> FALSE, chefsBaseUrl |-> <<>>, chefsBasePath |-> <<>>]
  /\ lastProxied = <<>>

(***************************************************************************)
(* compareVersions (src/src/utils/compareVersionsPolyfill.js).             *)
(* A string is the sequence of its characters.                             *)
(***************************************************************************)
VersionDigits == {"0", "1", "2"}

VersionChars == VersionDigits \cup {".", "a"}

Null == <<"null">>

Undefined == <<"undefined">>

\* The arguments of a call: null, undefined and the strings over VersionChars.
VersionInputs ==
  {Null, Undefined} \cup UNION {[1..n -> VersionChars] : n \in 0..MaxVersionLen}

NoComparison == <<>>

\* a == null
IsNullish(v) == v \in {Null, Undefined}

DigitValue(c) == CASE c = "0" -> 0 [] c = "1" -> 1 [] c = "2" -> 2

RECURSIVE DecimalValue(_)
\* The number a sequence of decimal digits denotes.
DecimalValue(digits) ==
  IF digits = <<>> THEN 0
  ELSE DecimalValue(SubSeq(digits, 1, Len(digits) - 1)) * 10
         + DigitValue(digits[Len(digits)])

RECURSIVE split(_)
\* String.prototype.split('.')
split(str) ==
  LET dots == {i \in DOMAIN str : str[i] = "."}
  IN IF dots = {} THEN <<str>>
     ELSE LET d == CHOOSE i \in dots : \A j \in dots : i <= j
          IN <<SubSeq(str, 1, d - 1)>> \o split(SubSeq(str, d + 1, Len(str)))

\* parseInt(part, 10): the number of the longest prefix of digits, NaN when
\* the part does not start with a digit.
parseInt(part) ==
  LET n == Cardinality({k \in DOMAIN part :
                         \A j \in 1..k : part[j] \in VersionDigits})
  IN IF n = 0 THEN [nan |-> TRUE, num |-> 0]
     ELSE [nan |-> FALSE, num |-> DecimalValue(SubSeq(part, 1, n))]

\* versionA.split('.').map(part => isNaN(num) ? 0 : num)
Parts(version) ==
  LET pieces == split(version)
  IN [i \in DOMAIN pieces |->
        IF parseInt(pieces[i]).nan THEN 0 ELSE parseInt(pieces[i]).num]

\* A missing part is not replaced by 0 but sorts below every part.
PartAtUnpadded(parts, i) == IF i \in DOMAIN parts THEN parts[i] ELSE -1

\* aParts[i] || 0
PartAt(parts, i) == IF i \in DOMAIN parts THEN parts[i] ELSE 0

RECURSIVE CompareFrom(_, _, _, _)
\* The for loop from index i on.
CompareFrom(aParts, bParts, i, maxLength) ==
  IF i > maxLength THEN 0
  ELSE IF PartAt(aParts, i) > PartAt(bParts, i) THEN 1
  ELSE IF PartAt(aParts, i) < PartAt(bParts, i) THEN -1
  ELSE CompareFrom(aParts, bParts, i + 1, maxLength)

compareVersions(a, b) ==
  IF IsNullish(a) /\ IsNullish(b) THEN 0
  ELSE IF IsNullish(a) THEN -1
  ELSE IF IsNullish(b) THEN 1
  ELSE IF a = <<>> /\ b = <<>> THEN 0
  ELSE IF a = <<>> THEN -1
  ELSE IF b = <<>> THEN 1
  ELSE LET aParts == Parts(a)
           bParts == Parts(b)
           maxLength == IF Len(aParts) > Len(bParts) THEN Len(aParts)
                                                     ELSE Len(bParts)
       IN CompareFrom(aParts, bParts, 1, maxLength)

\* One call compareVersions(a, b) is followed.
CompareVersions(a, b) ==
  /\ compared = NoComparison
  /\ compared' = [a |-> a, b |-> b, result |-> compareVersions(a, b)]

otherThanCompare == <<loaderVars, fileVars, storeVars, submitVars, chefsConfig,
                     authVars, rendererVars, configVars, proxyVars, consoleVars>>

CompareNext ==
  /\ compared = NoComparison
  /\ \E a \in VersionInputs, b \in VersionInputs :
       CompareVersions(a, b) /\ UNCHANGED otherThanCompare

CompareInit == compared = NoComparison

(***************************************************************************)
(* Console output of the configuration loader, the API service and the     *)
(* renderer, in two runs whose configurations differ in the API key only.  *)
(***************************************************************************)
\* x ? '***SET***' : 'NOT_SET'
SetMarker(x) == IF Truthy(x) THEN "***SET***" ELSE "NOT_SET"

\* x ? '***REDACTED***' : 'NOT_SET'
RedactedMarker(x) == IF Truthy(x) THEN "***REDACTED***" ELSE "NOT_SET"

\* { baseApiUrl, formId: ... ? '***SET***' : 'NOT_SET', apiKey: ... }
MarkedConfig(cfg) ==
  [baseApiUrl |-> cfg.baseApiUrl, formId |-> SetMarker(cfg.formId),
   apiKey |-> SetMarker(cfg.apiKey)]

\* The configuration loader in debug mode: { ...config, apiKey: marker }.
loadConfigLog(cfg) ==
  <<[cfg EXCEPT !.apiKey = RedactedMarker(cfg.apiKey)]>>

\* The console.log calls of chefsApi.initialize, with this.config after it.
initializeLog(cfg) == <<"Configuring CHEFS API service", MarkedConfig(cfg)>>

\* getConfig(): what a caller gets to log.
getConfig(cfg) == [cfg EXCEPT !.apiKey = SetMarker(cfg.apiKey)]

\* The options object of getComponentOptions, without its functions.
ComponentOptions(cfg, isDevelopment) ==
  [url |-> IF isDevelopment THEN <<"/api/files">> ELSE <<cfg.baseApiUrl, "/files">>,
   config |-> [baseApiUrl |-> cfg.baseApiUrl, formId |-> cfg.formId,
               apiKey |-> cfg.apiKey],
   auth |-> [type |-> "basic",
             credentials |-> btoa(Bytes(cfg.formId) \o <<58>> \o Bytes(cfg.apiKey))],
   baseUrl |-> cfg.baseApiUrl, apiKey |-> cfg.apiKey, formId |-> cfg.formId]

\* The console.log calls of getComponentOptions.
getComponentOptionsLog(cfg, isDevelopment) ==
  <<"Getting component options", MarkedConfig(cfg),
    ComponentOptions(cfg, isDevelopment).url, ComponentOptions(cfg, isDevelopment)>>

\* fileServiceConfig of renderForm, made from props.apiConfig.
FileServiceConfig(apiConfig) ==
  [baseApiUrl |-> IF Truthy(apiConfig.baseApiUrl) THEN apiConfig.baseApiUrl
                                                  ELSE DefaultBaseApiUrl,
   formId |-> apiConfig.formId, apiKey |-> apiConfig.apiKey]

\* this.config after the file-service part of renderForm.
renderFormConfig(cfg, apiConfig) ==
  IF Truthy(cfg.baseApiUrl) THEN cfg
                            ELSE initialize(cfg, FileServiceConfig(apiConfig))

\* The console.log calls of the file-service part of renderForm.
renderFormLog(cfg, apiConfig, isDevelopment) ==
  LET after == renderFormConfig(cfg, apiConfig)
  IN (IF Truthy(cfg.baseApiUrl) THEN <<>>
      ELSE <<MarkedConfig(FileServiceConfig(apiConfig))>> \o initializeLog(after))
     \o getComponentOptionsLog(after, isDevelopment)
     \o <<ComponentOptions(after, isDevelopment),
          ComponentOptions(after, isDevelopment)>>

\* The console.log calls of the fetch interceptor for a CHEFS file request:
\* the enhanced options with their headers, and the Authorization value.
fetchInterceptorLog(cfg, token) ==
  <<[Authorization |-> getCurrentAuthHeader(cfg, token), XApiKey |-> cfg.apiKey],
    getCurrentAuthHeader(cfg, token)>>

\* The configurations of the first run.
LogConfigs == [baseApiUrl : {"", "b1"}, formId : {"", "f1"}, apiKey : {"k1"}]

\* The API key of the second run.
TwinKey == "k2"

\* The configuration of the second run: that of the first with the other
\* key where a key is set.
Twin(cfg) == [cfg EXCEPT !.apiKey = IF Truthy(@) THEN TwinKey ELSE @]

\* What one operation wrote.
Logged(op, values) == [op |-> op, values |-> values]

\* The state of both runs after an operation that leaves the configuration
\* cfg (Twin(cfg) in the second run) and writes the given values.
BothRuns(cfg, op, values, twinValues) ==
  /\ Len(console) < MaxLogs
  /\ chefsConfig' = cfg
  /\ console' = Append(console, Logged(op, values))
  /\ consoleTwin' = Append(consoleTwin, Logged(op, twinValues))

\* The configuration module is evaluated in debug mode.
LogLoadConfig(config) ==
  LET app == [apiUrl |-> config.baseApiUrl, formId |-> config.formId,
              apiKey |-> config.apiKey]
  IN BothRuns(chefsConfig, "loadConfig", loadConfigLog(app),
              loadConfigLog(Twin(app)))

\* chefsApi.initialize(config)
LogInitialize(config) ==
  BothRuns(initialize(chefsConfig, config), "initialize",
           initializeLog(initialize(chefsConfig, config)),
           initializeLog(initialize(Twin(chefsConfig), Twin(config))))

\* A caller logs chefsApi.getConfig().
LogGetConfig ==
  BothRuns(chefsConfig, "getConfig", <<getConfig(chefsConfig)>>,
           <<getConfig(Twin(chefsConfig))>>)

\* chefsApi.getComponentOptions()
LogGetComponentOptions(isDevelopment) ==
  BothRuns(chefsConfig, "getComponentOptions",
           getComponentOptionsLog(chefsConfig, isDevelopment),
           getComponentOptionsLog(Twin(chefsConfig), isDevelopment))

\* The file-service part of renderForm with props.apiConfig.
LogRenderForm(apiConfig, isDevelopment) ==
  BothRuns(renderFormConfig(chefsConfig, apiConfig), "renderForm",
           renderFormLog(chefsConfig, apiConfig, isDevelopment),
           renderFormLog(Twin(chefsConfig), Twin(apiConfig), isDevelopment))

\* The fetch interceptor handles a CHEFS file request.
LogFetchInterceptor ==
  BothRuns(chefsConfig, "fetch", fetchInterceptorLog(chefsConfig, authToken),
           fetchInterceptorLog(Twin(chefsConfig), authToken))

otherThanConsole == <<loaderVars, fileVars, storeVars, submitVars, authVars,
                     rendererVars, configVars, proxyVars, utilVars>>

ConsoleNext ==
  \/ \E config \in LogConfigs : LogLoadConfig(config) /\ UNCHANGED otherThanConsole
  \/ \E config \in LogConfigs : LogInitialize(config) /\ UNCHANGED otherThanConsole
  \/ LogGetConfig /\ UNCHANGED otherThanConsole
  \/ \E isDevelopment \in BOOLEAN :
       LogGetComponentOptions(isDevelopment) /\ UNCHANGED otherThanConsole
  \/ \E apiConfig \in LogConfigs, isDevelopment \in BOOLEAN :
       LogRenderForm(apiConfig, isDevelopment) /\ UNCHANGED otherThanConsole
  \/ LogFetchInterceptor /\ UNCHANGED otherThanConsole

ConsoleInit ==
  /\ console = <<>>
  /\ consoleTwin = <<>>

Init ==
  /\ LoaderInit /\ FilesInit /\ StoreInit /\ AuthInit /\ RendererInit
  /\ ConfigInit /\ ProxyInit /\ CompareInit /\ ConsoleInit

SpecLoader == Init /\ [][LoaderNext]_vars

SpecFiles == Init /\ [][FilesNext]_vars

SpecFilesFair == SpecFiles /\ FilesFairness

SpecProcess == Init /\ [][ProcessNext]_vars

SpecDownload == Init /\ [][DownloadNext]_vars

SpecStore == Init /\ [][StoreNext]_vars

SpecAuth == Init /\ [][AuthNext]_vars

SpecRenderer == Init /\ [][RendererNext]_vars

\* The bodies of GET .../formModuleVersions for given lists of external URIs.
ModuleVersionListsOf(formId, formVersionId, uriLists) ==
  {<<ModuleVersion(formId, formVersionId, uris)>> : uris \in uriLists}

\* One page load with module versions that name two external scripts: the
\* shell mounts, the requests and scripts settle, the user retries.
InitNext ==
  \/ \E autoLoad \in BOOLEAN : Mount(autoLoad) /\ UNCHANGED otherThanStore
  \/ retryLoad /\ UNCHANGED otherThanStore
  \/ \E i \in {j \in DOMAIN inits : inits[j].pc = "moduleVersions"} :
       \E data \in ModuleVersionListsOf(RequestOf(i, "moduleVersions").formId,
                                        RequestOf(i, "moduleVersions").formVersionId,
                                        {<<"u1", "u2">>, <<"u1", "u1">>}) :
         ModuleVersionsFetched(i, data) /\ UNCHANGED otherThanStore
  \/ \E i \in DOMAIN inits : ModuleVersionsFailed(i) /\ UNCHANGED otherThanStore
  \/ \E i \in {j \in DOMAIN inits : inits[j].pc = "schema"} :
       \E data \in Schemas(RequestOf(i, "schema").formId) :
         SchemaFetched(i, data) /\ UNCHANGED otherThanStore
  \/ \E i \in DOMAIN inits : SchemaFailed(i) /\ UNCHANGED otherThanStore
  \/ \E s \in DOMAIN scripts, ok \in BOOLEAN :
       ExternalScriptSettled(s, ok) /\ UNCHANGED otherThanStore

SpecInit == Init /\ [][InitNext]_vars

SpecConfig == Init /\ [][ConfigNext]_vars

SpecProxy == Init /\ [][ProxyNext]_vars

SpecCompare == Init /\ [][CompareNext]_vars

SpecConsole == Init /\ [][ConsoleNext]_vars

\* The answers of the network and of the browser to what an initialization
\* is waiting on.
Responses ==
  \/ \E i \in {j \in DOMAIN inits : inits[j].pc = "moduleVersions"} :
       \E data \in ModuleVersionLists(RequestOf(i, "moduleVersions").formId,
                                      RequestOf(i, "moduleVersions").formVersionId) :
         ModuleVersionsFetched(i, data) /\ UNCHANGED otherThanStore
  \/ \E i \in DOMAIN inits : ModuleVersionsFailed(i) /\ UNCHANGED otherThanStore
  \/ \E i \in {j \in DOMAIN inits : inits[j].pc = "schema"} :
       \E data \in Schemas(RequestOf(i, "schema").formId) :
         SchemaFetched(i, data) /\ UNCHANGED otherThanStore
  \/ \E i \in DOMAIN inits : SchemaFailed(i) /\ UNCHANGED otherThanStore
  \/ \E s \in DOMAIN scripts, ok \in BOOLEAN :
       ExternalScriptSettled(s, ok) /\ UNCHANGED otherThanStore

\* The embedded form in use: it loads on mount, and once the renderer is
\* mounted the user attaches files, removes files and submits.  Nothing in
\* the application calls processPendingFileOperations.
SubmitNext ==
  \/ \E autoLoad \in BOOLEAN : Mount(autoLoad) /\ UNCHANGED otherThanStore
  \/ Responses
  \/ \E data \in Submissions : FormSubmit(data) /\ UNCHANGED otherThanStore
  \/ /\ RendererMounted
     /\ \E time \in now..MaxNow, rand \in RandomParts : UploadFile(time, rand)
     /\ UNCHANGED otherThanFiles
  \/ /\ RendererMounted
     /\ \E id \in KnownIds : DeleteFile(id)
     /\ UNCHANGED otherThanFiles

\* Every request and every script load is answered in the end; the user is
\* under no obligation.
SubmitFairness == WF_vars(Responses)

SpecSubmit == Init /\ [][SubmitNext]_vars /\ SubmitFairness

(***************************************************************************)
(* Claims about the queue of file operations.                              *)
(***************************************************************************)
Posts == {q \in requests : q.method = "POST"}

KeysOf(entries) == {entries[i].key : i \in DOMAIN entries}

ValueOf(entries, k) == entries[IndexOf(entries, k)].value

\* C3: uploadFile sends nothing: it stores the file in pendingUploads under
\* the temporary id, which is the data.id of the descriptor it returns, and
\* leaves every other entry alone. A POST /files is issued only by a run of
\* processPendingFileOperations, for a file an earlier uploadFile call queued.
C3_UploadIsDeferred ==
  /\ [][nextFile' # nextFile =>
         /\ requests' = requests
         /\ IsTemp(lastUpload'.dataId)
         /\ Has(pendingUploads', lastUpload'.dataId)
         /\ ValueOf(pendingUploads', lastUpload'.dataId) = nextFile
         /\ KeysOf(pendingUploads') = KeysOf(pendingUploads) \cup {lastUpload'.dataId}
         /\ \A k \in KeysOf(pendingUploads) \ {lastUpload'.dataId} :
              ValueOf(pendingUploads', k) = ValueOf(pendingUploads, k)
         /\ UNCHANGED <<pendingDeletes, uploadedFiles, runs>>]_vars
  /\ [](\A q \in Posts : q.run \in DOMAIN runs /\ q.file < nextFile)

\* A queued file has been sent by a run of processPendingFileOperations.
C3_Witness == \E q \in Posts : q.run \in DOMAIN runs /\ q.file = 1

(***************************************************************************)
(* Claims about the component loader.                                      *)
(***************************************************************************)
ScriptsFor(u) == {s \in DOMAIN scripts : scripts[s].uri = u}

PendingFor(u) == {s \in ScriptsFor(u) : scripts[s].state = "pending"}

ResultsWith(status) ==
  {<<c, k>> \in (DOMAIN calls) \X (1..MaxUris + 1) :
     k \in DOMAIN calls[c].results /\ calls[c].results[k].status = status}

\* C1 (as stated): over any sequence of loadExternalComponents calls, at most
\* one <script> element is ever appended for a given URI.
C1_AtMostOneScriptPerUri == \A u \in Uris : Cardinality(ScriptsFor(u)) <= 1

\* C1 (amended): a task that ends with a URI recorded in loadedComponents has
\* appended no <script> element for that URI, so once a URI has loaded
\* successfully it is never injected again; a URI whose load failed is not
\* recorded and may be injected again.
C1_LoadedUriNeverInjectedAgain ==
  [][\A u \in Uris :
       loadedComponents'[u] # NoInfo => ScriptsFor(u)' = ScriptsFor(u)]_vars

\* A later call met a URI that had already loaded and took the cached branch.
C1_Witness == ResultsWith("cached") # {}

\* C2: while a script for a URI is still loading, no second <script> element
\* is appended for that URI, and a call that waited for the in-flight load
\* reports 'deduped' with the component info stored in loadedComponents,
\* never undefined.
C2_InFlightLoadIsShared ==
  /\ \A u \in Uris : Cardinality(PendingFor(u)) <= 1
  /\ \A w \in ResultsWith("deduped") :
       LET r == calls[w[1]].results[w[2]]
       IN r.components # NoInfo /\ r.components = loadedComponents[r.uri]

\* The part of C2 about the result entry alone.
C2_DedupedCarriesStoredInfo ==
  \A w \in ResultsWith("deduped") :
    LET r == calls[w[1]].results[w[2]]
    IN r.components # NoInfo /\ r.components = loadedComponents[r.uri]

(***************************************************************************)
(* Submission (SpecSubmit)                                                 *)
(***************************************************************************)
Deletes == {q \in requests : q.method = "DELETE"}

\* C4: once the form has emitted 'submit', the files still queued in
\* pendingUploads are eventually sent with POST /files and the ids queued in
\* pendingDeletes are eventually sent with DELETE /files/{id}.
C4_SubmitProcessesPendingFiles ==
  /\ (emitted # <<>> /\ pendingUploads # <<>>)
       ~> (Posts # {} \/ pendingUploads = <<>>)
  /\ (emitted # <<>> /\ pendingDeletes # <<>>)
       ~> (Deletes # {} \/ pendingDeletes = <<>>)

\* The requests that carry a submission.
SubmissionRequests == {q \in fetches : q.kind = "submission"}

\* C5 as stated: every 'submit' event is eventually followed by a request
\* to the API that carries the submission.
C5_SubmissionIsSent == (emitted # <<>>) ~> (SubmissionRequests # {})

\* C5 as the code has it: the step that emits 'submit' stores the submission
\* in the store's submissionData and issues no request of any kind.
C5_SubmissionIsOnlyStored ==
  [][emitted' # emitted =>
       /\ submissionData' = emitted'[Len(emitted')]
       /\ fetches' = fetches
       /\ requests' = requests]_vars

C5_Witness == emitted # <<>> /\ submissionData = emitted[Len(emitted)]

(***************************************************************************)
(* Initialization (SpecStore)                                              *)
(***************************************************************************)
\* C6: when an initialization ends because one of its network calls failed,
\* error is a non-empty string, loading is false, isFormReady is false and
\* the renderer is not mounted.
C6_NetworkFailureSurfaced ==
  [][\A i \in DOMAIN inits :
       (inits[i].pc # "failed" /\ inits'[i].pc = "failed"
          /\ inits'[i].cause = "network")
       => /\ error' \notin {NoError, ""}
          /\ ~loading'
          /\ ~isFormReady'
          /\ ~RendererMounted']_vars

InitOrder == <<"moduleVersions", "external", "schema">>

IsPrefix(s, t) == Len(s) <= Len(t) /\ s = SubSeq(t, 1, Len(s))

\* C7: the step that runs retryLoad leaves module versions, selected module
\* version, schema, submission data and isFormReady at their initial values
\* and starts a new initialization (error cleared, loading set, the
\* module-version fetch issued; with an incomplete configuration only the
\* configuration error is set); every initialization issues the
\* module-version fetch, the external-resource load and the schema fetch in
\* this order, and has issued all three when it completes.
C7_RetryRestartsFromClearedState ==
  /\ [][(Len(inits') > Len(inits) /\ inits'[Len(inits')].via = "retry") =>
          /\ formModuleVersions' = <<>>
          /\ selectedFormModuleVersion' = NoModuleVersion
          /\ formSchema' = NoSchema
          /\ submissionData' = NoSubmission
          /\ ~isFormReady'
          /\ IF isFullyConfigured
               THEN /\ error' = NoError
                    /\ loading'
                    /\ inits'[Len(inits')].steps = <<"moduleVersions">>
                    /\ fetches' \ fetches =
                         {[kind |-> "moduleVersions", formId |-> formConfig.formId,
                           formVersionId |-> formConfig.formVersionId,
                           init |-> Len(inits')]}
               ELSE /\ error' = ErrIncomplete
                    /\ ~loading'
                    /\ fetches' = fetches]_vars
  /\ [](\A i \in DOMAIN inits :
          /\ IsPrefix(inits[i].steps, InitOrder)
          /\ inits[i].pc = "done" => inits[i].steps = InitOrder)

C7_Witness ==
  \E i \in DOMAIN inits :
    /\ inits[i].via = "retry"
    /\ inits[i].pc = "done"
    /\ \E j \in 1..(i - 1) : inits[j].pc = "failed"

(***************************************************************************)
(* The form renderer (SpecRenderer)                                        *)
(***************************************************************************)
LiveInstances == {n \in DOMAIN instances : instances[n] = "live"}

\* C8: in every reachable state at most one created form instance has not
\* been destroyed, and it is the one held in formInstance.
C8_OnlyHeldInstanceIsLive ==
  /\ Cardinality(LiveInstances) <= 1
  /\ \A n \in LiveInstances : formInstance = n

(***************************************************************************)
(* Authentication (SpecAuth)                                               *)
(***************************************************************************)
Authorization(headers) == [scheme |-> headers.scheme, value |-> headers.value]

HasCredentials ==
  Truthy(authToken) \/ (Truthy(chefsConfig.formId) /\ Truthy(chefsConfig.apiKey))

ExpectedAuthorization ==
  IF authToken \notin {NoToken, ""}
    THEN [scheme |-> "Bearer", value |-> Bytes(authToken)]
    ELSE IF chefsConfig.formId # "" /\ chefsConfig.apiKey # ""
      THEN [scheme |-> "Basic",
            value |-> btoa(Bytes(chefsConfig.formId) \o <<58>>
                           \o Bytes(chefsConfig.apiKey))]
      ELSE [scheme |-> "none", value |-> <<>>]

\* C10: in every configuration state the apiClient interceptor, the
\* fileClient interceptor on the /files routes and getCurrentAuthHeader give
\* the same Authorization value: Bearer with the token when a token is set,
\* else Basic with base64(formId:apiKey) when both are non-empty, else none.
C10_SameAuthorizationEverywhere ==
  /\ Authorization(ApiClientAuthorization(chefsConfig, authToken)) = ExpectedAuthorization
  /\ \A kind \in {"upload", "download", "delete"} :
       Authorization(FileClientAuthorization(chefsConfig, authToken, Urls[kind]))
         = ExpectedAuthorization
  /\ getCurrentAuthHeader(chefsConfig, authToken) = ExpectedAuthorization

C10_Witness ==
  /\ Truthy(authToken)
  /\ Truthy(chefsConfig.formId)
  /\ Truthy(chefsConfig.apiKey)
  /\ \E q \in sent : q.client = "fileClient" /\ q.headers.scheme = "Bearer"
  /\ \E q \in sent : q.client = "apiClient" /\ q.headers.scheme = "Basic"

(***************************************************************************)
(* The queue of file operations (SpecFiles), continued                     *)
(***************************************************************************)
\* C11: every uploadFile call stores its file under a temporary id that is
\* not the key of a file already queued, so each call adds one entry to
\* pendingUploads and no queued file is overwritten.
C11_TempIdsAreUnique ==
  [][nextFile' # nextFile =>
       /\ ~Has(pendingUploads, lastUpload'.dataId)
       /\ Len(pendingUploads') = Len(pendingUploads) + 1
       /\ \A k \in KeysOf(pendingUploads) :
            ValueOf(pendingUploads', k) = ValueOf(pendingUploads, k)]_vars

(***************************************************************************)
(* Component loader (SpecLoader), continued                                *)
(***************************************************************************)
\* The scripts whose load event fires in the step.
LoadingNow == {s \in DOMAIN scripts : scripts[s].state = "pending"
                                      /\ scripts'[s].state = "loaded"}

\* C12: the snapshot loadScriptFromUri takes is the registry at the time of
\* the call (in a continuation of a load event: the registry with what the
\* script that just ran has registered), and when the load event of a script fires the info stored and
\* reported for its URI has as newComponents the types in the registry at
\* that moment that were not in the snapshot, and as totalComponents the
\* size of the registry at that moment.
C12_NewComponentsAreRegistryDifference ==
  /\ [][\A s \in DOMAIN scripts' \ DOMAIN scripts :
          scripts'[s].before = registry']_vars
  /\ [][\A s \in LoadingNow :
          LET uri == scripts[s].uri
              info == [uri |-> uri,
                       newComponents |-> registry' \ scripts[s].before,
                       totalComponents |-> Cardinality(registry')]
          IN /\ loadedComponents'[uri] = info
             /\ \E c \in DOMAIN calls : \E k \in DOMAIN calls'[c].results :
                  /\ k > Len(calls[c].results)
                  /\ calls'[c].results[k] = Result(uri, "loaded", info)]_vars

\* Both URIs loaded, one of them with a type the other script had
\* registered between its call and its load event, or with nothing new.
C12_Witness ==
  /\ \A u \in Uris : loadedComponents[u] # NoInfo
  /\ \E u \in Uris : loadedComponents[u].newComponents # Provides(u)
  /\ \E u \in Uris : loadedComponents[u].totalComponents = 3

(***************************************************************************)
(* The configuration loader (SpecConfig)                                   *)
(***************************************************************************)
\* The order of C13 for one key: runtime value when present and non-empty,
\* else the build-time value, else the fallback.
Resolved(key, fallback) ==
  IF envConfig.present /\ envConfig.vars[key] # <<>>
    THEN envConfig.vars[key]
    ELSE IF viteEnv[key] # <<>> THEN viteEnv[key] ELSE fallback

\* C13: each setting of the loaded configuration is resolved in the order
\* runtime value, build-time value, fallback.
C13_RuntimeThenBuildThenFallback ==
  appConfig.loaded =>
    /\ appConfig.formId = Resolved("VITE_API_FORM_ID", <<>>)
    /\ appConfig.formVersionId = Resolved("VITE_API_FORM_VERSION_ID", <<>>)
    /\ appConfig.apiKey = Resolved("VITE_API_KEY", <<>>)
    /\ appConfig.apiUrl =
         OrElse(Resolved("VITE_CHEFS_BASE_URL", <<>>)
                  \o Resolved("VITE_CHEFS_BASE_PATH", <<>>), DefaultApiUrl)

(***************************************************************************)
(* The dev proxy (SpecProxy)                                               *)
(***************************************************************************)
\* C14: a request whose path starts with /api is forwarded to the
\* configured base path followed by the rest of the path after the leading
\* /api (a later '/api' is kept), and an Authorization or X-API-KEY header
\* with a value on the incoming request has that value on the proxied one.
C14_ProxyRewritesLeadingApiOnly ==
  \A q \in {lastProxied[k] : k \in DOMAIN lastProxied} :
    /\ q.proxyPath = proxyConfig.chefsBasePath \o SubSeq(q.path, 5, Len(q.path))
    /\ q.headers.authorization \notin {"undefined", ""}
         => q.proxyHeaders.authorization = q.headers.authorization
    /\ q.headers.xApiKey \notin {"undefined", ""}
         => q.proxyHeaders.xApiKey = q.headers.xApiKey

\* A proxied request /api/api with both headers, the library having
\* copied none, under the default base path.
C14_Witness ==
  \E k \in DOMAIN lastProxied :
    /\ lastProxied[k].path = ApiPrefix \o ApiPrefix
    /\ proxyConfig.chefsBasePath = DefaultBasePath
    /\ ~lastProxied[k].copied
    /\ lastProxied[k].headers = [authorization |-> "v1", xApiKey |-> "v1"]

(***************************************************************************)
(* Initialization (SpecStore), continued                                   *)
(***************************************************************************)
\* The initializations that complete in the step.
CompletingNow == {i \in DOMAIN inits : inits[i].pc # "done" /\ inits'[i].pc = "done"}

\* C15: isFormReady becomes true only in the step in which one
\* initialization completes after its module-version fetch gave a non-empty
\* list, its external-component load finished and its schema fetch gave a
\* schema; and the renderer is never mounted with a null schema or while an
\* external-component load of an initialization has not finished.
C15_ReadyOnlyAfterAllSteps ==
  /\ [][(~isFormReady /\ isFormReady') =>
          \E i \in CompletingNow :
            /\ inits'[i].steps = InitOrder
            /\ formSchema' # NoSchema]_vars
  /\ [](RendererMounted =>
          /\ formSchema # NoSchema
          /\ \A i \in DOMAIN inits : inits[i].pc # "external")

(***************************************************************************)
(* External scripts that fail (SpecInit)                                   *)
(***************************************************************************)
\* The scripts whose error event fires in the step.
FailingNow == {s \in DOMAIN scripts : scripts[s].state = "pending"
                                      /\ scripts'[s].state = "failed"}

\* The calls that await the promise of script s.
Awaiting(s) ==
  {c \in DOMAIN calls : calls[c].pc \in {"awaitLoad", "awaitDedupe"} /\ calls[c].p = s}

\* C16: when a script fails, every call that awaits it records an 'error'
\* entry for the URI and goes on with the rest of its list, and the failed
\* promise is no longer in loadingPromises; a call that has returned has one
\* entry per URI of its list, in order; and an initialization whose
\* loadExternalComponents call returns goes on to the schema fetch.
C16_ScriptFailureNeverFailsCaller ==
  /\ [][\A s \in FailingNow :
          /\ loadingPromises'[scripts[s].uri] # s
          /\ \A c \in Awaiting(s) :
               /\ Len(calls'[c].results) >= calls[c].i
               /\ calls'[c].results[calls[c].i]
                    = Result(scripts[s].uri, "error", NoInfo)
               /\ calls'[c].i > calls[c].i
               /\ calls'[c].pc \in {"awaitLoad", "awaitDedupe", "done"}]_vars
  /\ [](\A c \in DOMAIN calls :
          calls[c].pc = "done" =>
            /\ Len(calls[c].results) = Len(calls[c].uris)
            /\ \A k \in DOMAIN calls[c].uris :
                 calls[c].results[k].uri = calls[c].uris[k])
  /\ [][\A i \in DOMAIN inits :
          (inits[i].pc = "external" /\ calls'[inits[i].call].pc = "done") =>
            /\ inits'[i].pc = "schema"
            /\ \E q \in fetches' \ fetches : q.kind = "schema" /\ q.init = i]_vars

\* An initialization that went on to the schema fetch after the first of
\* its two scripts failed and the second was attempted.
C16_Witness ==
  \E i \in DOMAIN inits :
    /\ inits[i].pc \in {"schema", "done"}
    /\ inits[i].call # 0
    /\ Len(calls[inits[i].call].results) = 2
    /\ calls[inits[i].call].results[1].status = "error"
    /\ calls[inits[i].call].results[2].status \in {"loaded", "error"}

(***************************************************************************)
(* processPendingFileOperations on its own (SpecProcess)                   *)
(***************************************************************************)
\* The runs that return in the step.
ReturningNow ==
  {r \in DOMAIN runs' : runs'[r].pc = "done"
                         /\ (r \in DOMAIN runs => runs[r].pc # "done")}

UploadErrors(run) ==
  {run.errors[k].id : k \in {j \in DOMAIN run.errors : run.errors[j].type = "upload"}}

DeleteErrors(run) ==
  {run.errors[k].id : k \in {j \in DOMAIN run.errors : run.errors[j].type = "delete"}}

SentBy(r, method, id) ==
  {q \in requests' : q.run = r /\ q.method = method /\ q.id = id}

\* C17: the queues do not change between the start of a run and its
\* return, and when the run returns every temporary id of pendingUploads is
\* in exactly one of results.uploads and results.errors, every id of
\* pendingDeletes in exactly one of results.deletes and results.errors, each
\* was sent exactly once, the results name nothing else, and both queues
\* are empty.
C17_EveryItemProcessedOnce ==
  /\ [][(\E r \in DOMAIN runs : runs[r].pc # "done" /\ runs'[r].pc # "done")
          => UNCHANGED <<pendingUploads, pendingDeletes>>]_vars
  /\ [][\A r \in ReturningNow :
          LET run == runs'[r]
              ups == {u.id : u \in run.uploads}
              dels == {run.deletes[k] : k \in DOMAIN run.deletes}
          IN /\ ups \cup UploadErrors(run) = KeysOf(pendingUploads)
             /\ ups \cap UploadErrors(run) = {}
             /\ dels \cup DeleteErrors(run) = KeysOf(pendingDeletes)
             /\ dels \cap DeleteErrors(run) = {}
             /\ Len(run.deletes) + Len(run.errors) + Cardinality(run.uploads)
                  = Len(pendingUploads) + Len(pendingDeletes)
             /\ \A id \in KeysOf(pendingUploads) :
                  Cardinality(SentBy(r, "POST", id)) = 1
             /\ \A id \in KeysOf(pendingDeletes) :
                  Cardinality(SentBy(r, "DELETE", id)) = 1
             /\ run.sent = Len(pendingUploads) + Len(pendingDeletes)
             /\ pendingUploads' = <<>>
             /\ pendingDeletes' = <<>>]_vars

\* A run that returned with one upload done, one upload failed and a
\* delete attempted.
C17_Witness ==
  \E r \in DOMAIN runs :
    /\ runs[r].pc = "done"
    /\ runs[r].uploads # {}
    /\ UploadErrors(runs[r]) # {}
    /\ Len(runs[r].deletes) = 1

Gets == {q \in requests : q.method = "GET"}

\* C19: a getFile call with a temporary id sends nothing; it resolves with
\* the file queued under the id, its type as content-type and its name in
\* content-disposition, when the id is in pendingUploads, and rejects with
\* 'Temp file not found' when it is not. Every GET /files/{id} carries an id
\* without the 'temp_' prefix, and a call with such an id sends one.
C19_TempFileIsServedLocally ==
  /\ [][\A id \in TempIds \cup RealIds : GetFile(id) =>
          IF IsTemp(id)
            THEN /\ requests' = requests
                 /\ IF id \in KeysOf(pendingUploads)
                      THEN /\ lastGet'.status = "resolved"
                           /\ lastGet'.data = ValueOf(pendingUploads, id)
                           /\ lastGet'.headers.contentType = TypeOf(lastGet'.data)
                           /\ lastGet'.headers.contentDisposition[2] = lastGet'.data
                      ELSE /\ lastGet'.status = "rejected"
                           /\ lastGet'.message = "Temp file not found"
            ELSE /\ lastGet'.status = "pending"
                 /\ \E q \in Gets' : q.id = id]_vars
  /\ [](\A q \in Gets : ~IsTemp(q.id))

\* getFile has served the second queued file while the first is queued too.
C19_Witness ==
  /\ lastGet.status = "resolved"
  /\ "data" \in DOMAIN lastGet
  /\ lastGet.data = 2
  /\ Len(pendingUploads) = 2

(***************************************************************************)
(* The schema of the configured form version (SpecStore)                   *)
(***************************************************************************)
\* C20: the request fetchFormSchema sends names the formVersionId of the
\* configuration it is sent for, and the schema the renderer is mounted
\* with is the schema of the configured form version.
C20_SchemaOfConfiguredVersion ==
  /\ \A q \in fetches : q.kind = "schema" => q.formVersionId \in FormVersionIds
  /\ (RendererMounted /\ Len(inits) = 1 /\ formSchema # NoSchema)
       => formSchema.version = formConfig.formVersionId

(***************************************************************************)
(* Initialization with an incomplete configuration (SpecStore)             *)
(***************************************************************************)
\* C21: an initialization that starts while one of the four configuration
\* fields is empty sends no request, injects no script, sets error to the
\* 'Form configuration is incomplete' message and leaves isFormReady false.
C21_IncompleteConfigurationStops ==
  [][(Len(inits') > Len(inits) /\ ~isFullyConfigured) =>
       /\ fetches' = fetches
       /\ scripts' = scripts
       /\ error' = ErrIncomplete
       /\ isFormReady' = FALSE
       /\ inits'[Len(inits')].pc = "failed"]_vars

\* The shell mounted with an incomplete configuration, and the exposed
\* initializeForm was called after that.
C21_Witness ==
  /\ Len(inits) = 2
  /\ inits[1].via = "mount" /\ inits[1].cause = "configuration"
  /\ inits[2].via = "exposed" /\ inits[2].cause = "configuration"
  /\ error = ErrIncomplete
  /\ fetches = {}

(***************************************************************************)
(* compareVersions (SpecCompare)                                           *)
(***************************************************************************)
\* A dot-separated version of non-negative integers: digits and single dots
\* between them.
IsVersion(v) ==
  /\ ~IsNullish(v)
  /\ v # <<>>
  /\ \A i \in DOMAIN v : v[i] \in VersionDigits \cup {"."}
  /\ v[1] # "." /\ v[Len(v)] # "."
  /\ \A i \in 1..(Len(v) - 1) : ~(v[i] = "." /\ v[i + 1] = ".")

\* The integers of a version, left to right.
NumbersOf(v) == [i \in DOMAIN split(v) |-> DecimalValue(split(v)[i])]

\* The sign of the comparison of two lists of integers read left to right,
\* a missing trailing part counting as 0.
ListOrder(p, q) ==
  LET at(l, i) == IF i \in DOMAIN l THEN l[i] ELSE 0
      differ == {i \in DOMAIN p \cup DOMAIN q : at(p, i) # at(q, i)}
  IN IF differ = {} THEN 0
     ELSE LET i == CHOOSE k \in differ : \A j \in differ : k <= j
          IN IF at(p, i) > at(q, i) THEN 1 ELSE -1

\* C22: compareVersions(a, b) is -1, 0 or 1 and the opposite of
\* compareVersions(b, a); null and undefined equal each other and sort
\* below every other value; and for two dot-separated versions of
\* non-negative integers the result is the order of their integer lists, a
\* missing trailing part counting as 0.
C22_CompareVersionsIsAnOrder ==
  compared # NoComparison =>
    LET a == compared.a
        b == compared.b
        r == compared.result
    IN /\ r \in {-1, 0, 1}
       /\ r = 0 - compareVersions(b, a)
       /\ (IsNullish(a) /\ IsNullish(b)) => r = 0
       /\ (IsNullish(a) /\ ~IsNullish(b)) => r = -1
       /\ (IsVersion(a) /\ IsVersion(b)) => r = ListOrder(NumbersOf(a), NumbersOf(b))

\* '1.0' was compared with '1'.
C22_Witness ==
  /\ compared # NoComparison
  /\ compared.a = <<"1", ".", "0">>
  /\ compared.b = <<"1">>
  /\ compared.result = 0

(***************************************************************************)
(* The API key in the console (SpecConsole)                                *)
(***************************************************************************)
\* C23: two runs whose configurations differ only in the value of a
\* non-empty API key write the same values to the console.
C23_ApiKeyNeverLogged == console = consoleTwin

(***************************************************************************)
(* Overlapping initializations (SpecStore)                                 *)
(***************************************************************************)
\* No initialization is waiting and no configuration timer is pending.
Quiescent ==
  /\ timers = 0
  /\ \A i \in DOMAIN inits : inits[i].pc \in {"done", "failed"}

\* The initializations that a later retryLoad or configuration change has
\* superseded and whose successor has not finished.
Superseded ==
  {i \in DOMAIN inits' :
     \/ timers' > 0
     \/ \E j \in DOMAIN inits' :
          /\ j > i
          /\ inits'[j].via \in {"retry", "configuration"}
          /\ inits'[j].pc \notin {"done", "failed"}}

\* C24: when nothing is in flight any more, the schema and the selected
\* form module version in the store are those of the form of the current
\* configuration; and isFormReady is not set by an initialization that a
\* retryLoad or a configuration change has superseded while the later
\* initialization has not finished.
C24_OverlappingInitializationsDoNotMix ==
  /\ [](Quiescent =>
         /\ formSchema # NoSchema => formSchema.form = formConfig.formId
         /\ selectedFormModuleVersion # NoModuleVersion =>
              /\ selectedFormModuleVersion.form = formConfig.formId
              /\ selectedFormModuleVersion.version = formConfig.formVersionId)
  /\ [][(isFormReady' /\ ~isFormReady) => CompletingNow \cap Superseded = {}]_vars

(***************************************************************************)
(* Files queued while a run is in progress (SpecFiles)                     *)
(***************************************************************************)
\* C25: a temporary id leaves pendingUploads only in a deleteFile call with
\* that id or after a run of processPendingFileOperations has sent a POST
\* for it.
C25_NoQueuedFileIsLost ==
  [][\A k \in KeysOf(pendingUploads) \ KeysOf(pendingUploads') :
       \/ DeleteFile(k)
       \/ \E q \in Posts' : q.id = k]_vars

(***************************************************************************)
(* The panels of the shell (SpecStore)                                     *)
(***************************************************************************)
\* The panels of the template that are shown: v-if="loading",
\* v-if="error", v-if="isFormReady && !loading && !error".
PanelsShown ==
  {p \in {"loading", "error", "form"} :
     \/ p = "loading" /\ loading
     \/ p = "error" /\ error # NoError
     \/ p = "form" /\ RendererMounted}

\* An initialization waits for a store fetch or for external scripts.
InFlight ==
  \E i \in DOMAIN inits : inits[i].pc \in {"moduleVersions", "external", "schema"}

\* C26: once an initialization has started exactly one panel is shown,
\* loading and error are never both set, and loading is true while a fetch
\* or an external-script load of an initialization is in flight.
C26_ExactlyOnePanel ==
  Len(inits) >= 1 =>
    /\ Cardinality(PanelsShown) = 1
    /\ ~(loading /\ error # NoError)
    /\ InFlight => loading

====
